---- MODULE Spec2Model ----
(***************************************************************************)
(* DS3231Controller: schedules, vacation mode, pump exercise and alarm     *)
(* planning on top of a DS3231 real-time clock (src/src/DS3231Controller   *)
(* .cpp, declarations in src/unnamed/part_002).                            *)
(*                                                                         *)
(* A DateTime is the number of seconds since 2000-01-01 00:00:00, the      *)
(* clock's epoch; 2000-01-01 is a Saturday.  The default-constructed       *)
(* DateTime(), which the source returns and comments as "Invalid", is the  *)
(* value InvalidDateTime; it orders before every clock time.               *)
(***************************************************************************)
EXTENDS Integers, Sequences, FiniteSets, TLC

VARIABLES
    initialized,    \* _initialized
    schedules,      \* _schedules, in insertion order
    vacationMode,   \* _vacationMode
    pumpExercise,   \* _pumpExercise
    rtcNow,         \* the time the RTC hardware holds
    alarm1,         \* the hardware's alarm 1 registers
    alarm2,         \* the hardware's alarm 2 registers
    alarmFired,     \* the hardware's alarm flags A1F and A2F
    last,           \* the last public call: what it was given and what it returned
    pc,             \* per calling context: the statement it is at
    loc,            \* per calling context: its call's local variables
    mutex,          \* the recursive mutex: its owner and hold count
    completedIn,    \* history: the <<year, month>> of each clock time at which
                    \* markPumpExerciseComplete recorded a run
    callbacks       \* which of _timeChangeCallback ("time"), _alarmCallback
                    \* ("alarm") and _scheduleCallback ("schedule") are set

vars == <<initialized, schedules, vacationMode, pumpExercise, rtcNow,
          alarm1, alarm2, alarmFired, last, pc, loc, mutex,
          completedIn, callbacks>>

----------------------------------------------------------------------------
(* Program constants *)

MAX_SCHEDULES == 10

\* The day loop of calculateNextOccurrence: for (int days = 0; days < 8; days++)
SearchDays == 8

\* The bound of getNextFreeScheduleId's scan: while (found && id < 255)
MaxId == 255

InvalidDateTime == -1

(* Bounds of the model *)

\* The clock runs over the days 0..MaxDay after 2000-01-01
MaxDay == 5

\* The callers choose an id themselves while fewer than MaxChosen schedules
\* are held where the set is filled to its capacity
MaxChosen == 2

\* The schedules held at once where the evaluation of windows is explored
MaxHeld == 2

----------------------------------------------------------------------------
(* DateTime *)

DT(day, h, m, s) == day * 86400 + h * 3600 + m * 60 + s

isValid(dt) == dt # InvalidDateTime

dateOf(dt) == dt \div 86400

hour(dt) == (dt % 86400) \div 3600

minute(dt) == (dt % 3600) \div 60

second(dt) == dt % 60

\* 0 = Sunday .. 6 = Saturday; day 0 (2000-01-01) is a Saturday
dayOfTheWeek(dt) == (dateOf(dt) + 6) % 7

\* The days of January .. December of a year that is no leap year
daysInMonth == <<31, 28, 31, 30, 31, 30, 31, 31, 30, 31, 30, 31>>

\* The years from 2000 on are leap years every fourth, as the RTC counts them
daysInYear(yOff) == IF yOff % 4 = 0 THEN 366 ELSE 365

daysOfMonth(yOff, m) ==
    IF m = 2 /\ yOff % 4 = 0 THEN daysInMonth[m] + 1 ELSE daysInMonth[m]

\* The year a day count since 2000-01-01 falls in, and the days left in it
RECURSIVE yearOfDays(_, _)
yearOfDays(days, yOff) ==
    IF days < daysInYear(yOff) THEN [yOff |-> yOff, days |-> days]
    ELSE yearOfDays(days - daysInYear(yOff), yOff + 1)

\* The month a day count within a year falls in, and the days left in it
RECURSIVE monthOfDays(_, _, _)
monthOfDays(days, yOff, m) ==
    IF m = 12 \/ days < daysOfMonth(yOff, m) THEN [m |-> m, days |-> days]
    ELSE monthOfDays(days - daysOfMonth(yOff, m), yOff, m + 1)

year(dt) == 2000 + yearOfDays(dateOf(dt), 0).yOff

month(dt) ==
    LET y == yearOfDays(dateOf(dt), 0) IN monthOfDays(y.days, y.yOff, 1).m

\* now.day(): 1 .. 31
dayOfTheMonth(dt) ==
    LET y == yearOfDays(dateOf(dt), 0) IN monthOfDays(y.days, y.yOff, 1).days + 1

\* DateTime(x.year(), x.month(), x.day(), h, m, 0)
sameDateAt(x, h, m) == DT(dateOf(x), h, m, 0)

\* uint32_t values as <<high, low>> 16-bit halves: any of them can be held
\* and the sum wraps at 2^32 as in the code
Half == 65536

\* uint32_t + int32_t, the int32_t converted to uint32_t
addU32(a, offset) ==
    LET low == a[2] + (offset % Half)
        high == a[1] + ((offset \div Half) % Half) + (low \div Half)
    IN  <<high % Half, low % Half>>

\* uint32_t - uint32_t
subU32(a, b) ==
    LET low == a[2] - b[2]
        high == a[1] - b[1] + (low \div Half)
    IN  <<high % Half, low % Half>>

\* A faulty variant of lessU32: equal values count as less
lessU32OrEqual(a, b) == a[1] < b[1] \/ (a[1] = b[1] /\ a[2] <= b[2])

lessU32(a, b) == a[1] < b[1] \/ (a[1] = b[1] /\ a[2] < b[2])

\* 946684800UL, 2000-01-01 00:00:00 as seconds since 1970: the first half is
\* 946684800 \div 65536, the second what is left
SECONDS_FROM_1970_TO_2000 == <<14445, 17280>>

\* DateTime(uint32_t t): t -= SECONDS_FROM_1970_TO_2000, then the days and the
\* seconds of the day (through t / 128, and 86400 = 675 * 128)
daysOfEpoch(epoch) ==
    LET t == subU32(epoch, SECONDS_FROM_1970_TO_2000)
    IN  (t[1] * 512 + (t[2] \div 128)) \div 675

secondsOfEpoch(epoch) ==
    LET t == subU32(epoch, SECONDS_FROM_1970_TO_2000)
    IN  ((t[1] * 512 + (t[2] \div 128)) % 675) * 128 + (t[2] % 128)

\* DateTime(uint32_t t).year()
yearOfEpoch(epoch) == 2000 + yearOfDays(daysOfEpoch(epoch), 0).yOff

\* DateTime(uint32_t t) as seconds since 2000-01-01
DateTimeOfEpoch(epoch) == daysOfEpoch(epoch) * 86400 + secondsOfEpoch(epoch)

----------------------------------------------------------------------------
(* Schedule *)

Schedule(id, dayMask, startHour, startMinute, endHour, endMinute, enabled, name) ==
    [id |-> id, dayMask |-> dayMask, startHour |-> startHour,
     startMinute |-> startMinute, endHour |-> endHour, endMinute |-> endMinute,
     enabled |-> enabled, name |-> name]

\* (dayMask & (1 << dayOfWeek)) != 0
isDayEnabled(schedule, dayOfWeek) ==
    (schedule.dayMask \div (2 ^ dayOfWeek)) % 2 = 1

\* A faulty variant of isTimeInRange: the end minute counted into the window
isTimeInRangeLate(current, startHour, startMinute, endHour, endMinute) ==
    LET currentMinutes == hour(current) * 60 + minute(current)
        startMinutes == startHour * 60 + startMinute
        endMinutes == endHour * 60 + endMinute
    IN  IF startMinutes <= endMinutes
        THEN currentMinutes >= startMinutes /\ currentMinutes <= endMinutes
        ELSE currentMinutes >= startMinutes \/ currentMinutes < endMinutes

isTimeInRange(current, startHour, startMinute, endHour, endMinute) ==
    LET currentMinutes == hour(current) * 60 + minute(current)
        startMinutes == startHour * 60 + startMinute
        endMinutes == endHour * 60 + endMinute
    IN  IF startMinutes <= endMinutes
        THEN currentMinutes >= startMinutes /\ currentMinutes < endMinutes
        ELSE currentMinutes >= startMinutes \/ currentMinutes < endMinutes

\* The index of the first schedule holding scheduleId, 0 when there is none
\* (the lookup loops of isWithinSchedule, getSchedule and updateSchedule)
findSchedule(scheds, scheduleId) ==
    LET hits == {i \in 1..Len(scheds) : scheds[i].id = scheduleId}
    IN  IF hits = {} THEN 0 ELSE CHOOSE i \in hits : \A j \in hits : i <= j

\* The schedule the lookup of id ends on, where one carries it
Held(id) == schedules[findSchedule(schedules, id)]

\* isWithinSchedule past its guards, with the clock reading `current`
withinSchedule(scheds, scheduleId, current) ==
    LET i == findSchedule(scheds, scheduleId)
    IN  IF i = 0 \/ ~scheds[i].enabled THEN FALSE
        ELSE IF ~isDayEnabled(scheds[i], dayOfTheWeek(current)) THEN FALSE
        ELSE isTimeInRange(current, scheds[i].startHour, scheds[i].startMinute,
                           scheds[i].endHour, scheds[i].endMinute)

\* now >= _vacationMode.startDate && now <= _vacationMode.endDate
vacationCovers(vac, current) ==
    current >= vac.startDate /\ current <= vac.endDate

\* A faulty variant of withinAnySchedule: the vacation taken to have no end
withinAnyScheduleOpenEnded(scheds, vac, current) ==
    IF vac.enabled /\ current >= vac.startDate THEN FALSE
    ELSE \E i \in 1..Len(scheds) : withinSchedule(scheds, scheds[i].id, current)

\* isWithinAnySchedule past its guards
withinAnySchedule(scheds, vac, current) ==
    IF vac.enabled /\ vacationCovers(vac, current) THEN FALSE
    ELSE \E i \in 1..Len(scheds) : withinSchedule(scheds, scheds[i].id, current)

\* A faulty variant of getNextFreeScheduleId: one more than the number held
getNextFreeScheduleIdByCount(scheds) == Len(scheds) + 1

\* do { found = false; for (...) if (schedule.id == id) { found = true; id++;
\* break; } } while (found && id < 255): the scan restarts after every hit
RECURSIVE scanFreeId(_, _)
scanFreeId(scheds, id) ==
    IF \E i \in 1..Len(scheds) : scheds[i].id = id
    THEN IF id + 1 < MaxId THEN scanFreeId(scheds, id + 1) ELSE id + 1
    ELSE id

getNextFreeScheduleId(scheds) == scanFreeId(scheds, 1)

\* A faulty variant of calculateNextOccurrence: the day of the week taken
\* from `from` and not from the minute after it
calculateNextOccurrenceDayOfFrom(schedule, from) ==
    IF ~schedule.enabled \/ schedule.dayMask = 0 THEN InvalidDateTime
    ELSE LET next == from + 60
             day(d) == next + d * 86400
             candidate(d) ==
                 sameDateAt(day(d), schedule.startHour, schedule.startMinute)
             hits == {d \in 0..(SearchDays - 1) :
                         /\ isDayEnabled(schedule, dayOfTheWeek(from + d * 86400))
                         /\ candidate(d) > from}
         IN  IF hits = {} THEN InvalidDateTime
             ELSE candidate(CHOOSE d \in hits : \A e \in hits : d <= e)

\* A faulty variant of calculateNextOccurrence: candidate >= from for > from
calculateNextOccurrenceNotStrict(schedule, from) ==
    IF ~schedule.enabled \/ schedule.dayMask = 0 THEN InvalidDateTime
    ELSE LET next == from + 60
             day(d) == next + d * 86400
             candidate(d) ==
                 sameDateAt(day(d), schedule.startHour, schedule.startMinute)
             hits == {d \in 0..(SearchDays - 1) :
                         /\ isDayEnabled(schedule, dayOfTheWeek(day(d)))
                         /\ candidate(d) >= from}
         IN  IF hits = {} THEN InvalidDateTime
             ELSE candidate(CHOOSE d \in hits : \A e \in hits : d <= e)

\* The first day, of the SearchDays days from the minute after `from`, that is
\* enabled and whose start is after `from`
calculateNextOccurrence(schedule, from) ==
    IF ~schedule.enabled \/ schedule.dayMask = 0 THEN InvalidDateTime
    ELSE LET next == from + 60
             day(d) == next + d * 86400
             candidate(d) ==
                 sameDateAt(day(d), schedule.startHour, schedule.startMinute)
             hits == {d \in 0..(SearchDays - 1) :
                         /\ isDayEnabled(schedule, dayOfTheWeek(day(d)))
                         /\ candidate(d) > from}
         IN  IF hits = {} THEN InvalidDateTime
             ELSE candidate(CHOOSE d \in hits : \A e \in hits : d <= e)

\* The loop of getNextScheduledStart from schedule i on, with its locals
RECURSIVE nextStartLoop(_, _, _, _, _)
nextStartLoop(scheds, i, current, nextStart, found) ==
    IF i > Len(scheds) THEN nextStart
    ELSE IF ~scheds[i].enabled
         THEN nextStartLoop(scheds, i + 1, current, nextStart, found)
         ELSE LET scheduleNext == calculateNextOccurrence(scheds[i], current)
              IN  IF isValid(scheduleNext) /\ (~found \/ scheduleNext < nextStart)
                  THEN nextStartLoop(scheds, i + 1, current, scheduleNext, TRUE)
                  ELSE nextStartLoop(scheds, i + 1, current, nextStart, found)

\* A faulty variant of getNextScheduledStart's loop: > for <, the latest kept
RECURSIVE nextStartLoopLatest(_, _, _, _, _)
nextStartLoopLatest(scheds, i, current, nextStart, found) ==
    IF i > Len(scheds) THEN nextStart
    ELSE IF ~scheds[i].enabled
         THEN nextStartLoopLatest(scheds, i + 1, current, nextStart, found)
         ELSE LET scheduleNext == calculateNextOccurrence(scheds[i], current)
              IN  IF isValid(scheduleNext) /\ (~found \/ scheduleNext > nextStart)
                  THEN nextStartLoopLatest(scheds, i + 1, current, scheduleNext, TRUE)
                  ELSE nextStartLoopLatest(scheds, i + 1, current, nextStart, found)

nextScheduledStartLatest(scheds, current) ==
    nextStartLoopLatest(scheds, 1, current, InvalidDateTime, FALSE)

\* getNextScheduledStart past its guards
nextScheduledStart(scheds, current) ==
    nextStartLoop(scheds, 1, current, InvalidDateTime, FALSE)

----------------------------------------------------------------------------
(* The controller's state *)

Ctx == {1, 2}

NoAlarm == [set |-> FALSE, time |-> InvalidDateTime, mode |-> "none"]

\* The time the firmware was compiled at: DateTime(F(__DATE__), F(__TIME__))
CompileTime == DT(0, 12, 0, 0)

NoCall ==
    [op |-> "none", arg |-> 0, ok |-> FALSE, t |-> InvalidDateTime,
     hw |-> FALSE, init |-> FALSE, lock |-> FALSE, notified |-> <<>>]

\* What a public call leaves in `last`: its name and the id or the buffer it
\* was given, the value it returned (ok, or t: a DateTime, a number of
\* seconds or a position in the set), whether it accessed the RTC hardware,
\* whether begin() had succeeded when it was entered, whether it got the lock,
\* and the callbacks it invoked, in their order
Call(op, arg, ok, t, hw, lock) ==
    [op |-> op, arg |-> arg, ok |-> ok, t |-> t, hw |-> hw,
     init |-> initialized, lock |-> lock, notified |-> <<>>]

\* if (callback) callback(value): what is invoked, as <<which, value>>
Invoked(which, value) ==
    IF which \in callbacks THEN << <<which, value>> >> ELSE <<>>

Notifying(call, invoked) == [call EXCEPT !.notified = invoked]

\* The constructor writes neither _vacationMode.runPumpExercise, which then
\* holds either value, nor the DateTime members, which are DateTime()
Init ==
    /\ initialized = FALSE
    /\ schedules = <<>>
    /\ vacationMode \in
           {[enabled |-> FALSE, startDate |-> InvalidDateTime,
             endDate |-> InvalidDateTime, runPumpExercise |-> r] : r \in BOOLEAN}
    /\ pumpExercise =
           [enabled |-> FALSE, dayOfMonth |-> 1, hour |-> 3, minute |-> 0,
            durationSeconds |-> 300, lastRun |-> InvalidDateTime]
    /\ rtcNow = DT(0, 12, 0, 0)
    /\ alarm1 = NoAlarm
    /\ alarm2 = NoAlarm
    /\ alarmFired = [n \in 1..2 |-> FALSE]
    /\ last = NoCall
    /\ pc = [c \in Ctx |-> "idle"]
    /\ loc = [c \in Ctx |-> <<>>]
    /\ mutex = [owner |-> 0, count |-> 0]
    /\ completedIn = {}
    /\ callbacks = {}

conc == <<pc, loc, mutex>>

----------------------------------------------------------------------------
(* Values the nested calls return, with what they do to the hardware.     *)
(* `got` is whether the guard's bounded wait obtained the mutex.           *)

\* getNextScheduledStart: [t, hw]
getNextScheduledStartValue(scheds, got) ==
    IF ~initialized \/ ~got THEN [t |-> InvalidDateTime, hw |-> FALSE]
    ELSE [t |-> nextScheduledStart(scheds, rtcNow), hw |-> TRUE]

\* setAlarm1: [ok, hw, alarm]
setAlarm1Value(dt, matchSeconds, got) ==
    IF ~initialized \/ ~isValid(dt) \/ ~got
    THEN [ok |-> FALSE, hw |-> FALSE, alarm |-> alarm1]
    ELSE [ok |-> TRUE, hw |-> TRUE,
          alarm |-> [set |-> TRUE, time |-> dt,
                     mode |-> IF matchSeconds THEN "A1_Date" ELSE "A1_Hour"]]

\* A faulty variant of setAlarmForNextSchedule: planned for the schedules
\* held before the call
setAlarmForNextScheduleStale(scheds, gotStart, gotAlarm) ==
    LET next == getNextScheduledStartValue(schedules, gotStart)
        armed == setAlarm1Value(next.t, FALSE, gotAlarm)
    IN  IF ~isValid(next.t)
        THEN [ok |-> FALSE, hw |-> next.hw, alarm |-> alarm1]
        ELSE [ok |-> armed.ok, hw |-> next.hw \/ armed.hw, alarm |-> armed.alarm]

\* setAlarmForNextSchedule on the schedule set scheds: [ok, hw, alarm]
setAlarmForNextScheduleValue(scheds, gotStart, gotAlarm) ==
    LET next == getNextScheduledStartValue(scheds, gotStart)
        armed == setAlarm1Value(next.t, FALSE, gotAlarm)
    IN  IF ~isValid(next.t)
        THEN [ok |-> FALSE, hw |-> next.hw, alarm |-> alarm1]
        ELSE [ok |-> armed.ok, hw |-> next.hw \/ armed.hw, alarm |-> armed.alarm]

----------------------------------------------------------------------------
(* The public operations, each as one call made by a single context *)

hardware == <<rtcNow, alarm1, alarm2, alarmFired>>
policy == <<schedules, vacationMode, pumpExercise>>

\* A faulty variant of begin: the test of _initialized left out
beginAgain(rtcBegins, lostPower, got) ==
    /\ IF ~got
       THEN /\ last' = Call("begin", 0, FALSE, InvalidDateTime, FALSE, FALSE)
            /\ UNCHANGED <<initialized, hardware>>
       ELSE IF ~rtcBegins
       THEN /\ last' = Call("begin", 0, FALSE, InvalidDateTime, TRUE, TRUE)
            /\ UNCHANGED <<initialized, hardware>>
       ELSE /\ rtcNow' = IF lostPower THEN CompileTime ELSE rtcNow
            /\ alarmFired' = [n \in 1..2 |-> FALSE]
            /\ initialized' = TRUE
            /\ last' = Call("begin", 0, TRUE, InvalidDateTime, TRUE, TRUE)
            /\ UNCHANGED <<alarm1, alarm2>>
    /\ UNCHANGED <<policy, conc, completedIn, callbacks>>

begin(rtcBegins, lostPower, got) ==
    /\ IF initialized
       THEN /\ last' = Call("begin", 0, TRUE, InvalidDateTime, FALSE, FALSE)
            /\ UNCHANGED <<initialized, hardware>>
       ELSE IF ~got
       THEN /\ last' = Call("begin", 0, FALSE, InvalidDateTime, FALSE, FALSE)
            /\ UNCHANGED <<initialized, hardware>>
       ELSE IF ~rtcBegins
       THEN /\ last' = Call("begin", 0, FALSE, InvalidDateTime, TRUE, TRUE)
            /\ UNCHANGED <<initialized, hardware>>
       ELSE /\ rtcNow' = IF lostPower THEN CompileTime ELSE rtcNow
            /\ alarmFired' = [n \in 1..2 |-> FALSE]
            /\ initialized' = TRUE
            /\ last' = Call("begin", 0, TRUE, InvalidDateTime, TRUE, TRUE)
            /\ UNCHANGED <<alarm1, alarm2>>
    /\ UNCHANGED <<policy, conc, completedIn, callbacks>>

\* No test of _initialized here. Before begin() the RTC driver has no bus, and
\* what _rtc.now() reads then is `unbegun`, either answer
isRunning(got, unbegun) ==
    /\ last' = IF ~got
               THEN Call("isRunning", 0, FALSE, InvalidDateTime, FALSE, FALSE)
               ELSE Call("isRunning", 0,
                         IF initialized THEN isValid(rtcNow) ELSE unbegun,
                         InvalidDateTime, TRUE, TRUE)
    /\ UNCHANGED <<initialized, policy, hardware, conc, completedIn, callbacks>>

\* A faulty variant of setTime: the callback is invoked before the tests
setTimeValueNotifyingFirst(dt, got) ==
    IF ~initialized \/ ~isValid(dt) \/ ~got
    THEN [ok |-> FALSE, hw |-> FALSE, now |-> rtcNow,
          notified |-> Invoked("time", dt)]
    ELSE [ok |-> TRUE, hw |-> TRUE, now |-> dt, notified |-> Invoked("time", dt)]

\* setTime: [ok, hw, now, notified]
setTimeValue(dt, got) ==
    IF ~initialized \/ ~isValid(dt) \/ ~got
    THEN [ok |-> FALSE, hw |-> FALSE, now |-> rtcNow, notified |-> <<>>]
    ELSE [ok |-> TRUE, hw |-> TRUE, now |-> dt, notified |-> Invoked("time", dt)]

setTime(dt, got) ==
    /\ LET set == setTimeValue(dt, got)
       IN  /\ rtcNow' = set.now
           /\ last' = Notifying(Call("setTime", 0, set.ok, InvalidDateTime,
                                     set.hw, set.hw),
                                set.notified)
    /\ UNCHANGED <<initialized, policy, alarm1, alarm2, alarmFired, conc,
                   completedIn, callbacks>>

\* No test of _initialized and no lock before the nested setTime
setTimeFromUTC(utcEpoch, offsetSeconds, got) ==
    /\ LET localEpoch == addU32(utcEpoch, offsetSeconds)
           refused == \/ lessU32(utcEpoch, SECONDS_FROM_1970_TO_2000)
                      \/ yearOfEpoch(localEpoch) < 2000
                      \/ yearOfEpoch(localEpoch) > 2100
           set == setTimeValue(DateTimeOfEpoch(localEpoch), got)
       IN  IF refused
           THEN /\ last' = Call("setTimeFromUTC", <<utcEpoch, offsetSeconds>>,
                                FALSE, InvalidDateTime, FALSE, FALSE)
                /\ UNCHANGED rtcNow
           ELSE /\ rtcNow' = set.now
                /\ last' = Notifying(Call("setTimeFromUTC",
                                          <<utcEpoch, offsetSeconds>>, set.ok,
                                          InvalidDateTime, set.hw, set.hw),
                                     set.notified)
    /\ UNCHANGED <<initialized, policy, alarm1, alarm2, alarmFired, conc,
                   completedIn, callbacks>>

\* onTimeChange, onAlarm, onScheduleEvent: the callback is replaced, also by
\* an empty one (given = FALSE)
onCallback(op, which, given) ==
    /\ callbacks' = IF given THEN callbacks \union {which}
                    ELSE callbacks \ {which}
    /\ last' = Call(op, 0, TRUE, InvalidDateTime, FALSE, FALSE)
    /\ UNCHANGED <<initialized, policy, hardware, conc, completedIn>>

onTimeChange(given) == onCallback("onTimeChange", "time", given)

onAlarm(given) == onCallback("onAlarm", "alarm", given)

onScheduleEvent(given) == onCallback("onScheduleEvent", "schedule", given)

now(got) ==
    /\ last' = IF ~initialized \/ ~got
               THEN Call("now", 0, FALSE, InvalidDateTime, FALSE, FALSE)
               ELSE Call("now", 0, TRUE, rtcNow, TRUE, TRUE)
    /\ UNCHANGED <<initialized, policy, hardware, conc, completedIn, callbacks>>

\* int32_t converted to uint32_t
toU32(offset) == <<(offset \div Half) % Half, offset % Half>>

\* DateTime::unixtime() of a DateTime held as seconds since 2000-01-01
unixtime(dt) == addU32(SECONDS_FROM_1970_TO_2000, dt)

\* A faulty variant of utcOfLocal: the offset added
utcOfLocalAdding(localEpoch, offsetSeconds) ==
    addU32(localEpoch, offsetSeconds)

\* uint32_t utcEpoch = localEpoch - offsetSeconds;
utcOfLocal(localEpoch, offsetSeconds) ==
    subU32(localEpoch, toU32(offsetSeconds))

\* A call that returns a uint32_t epoch: `last` keeps it as `epoch`
ReturningEpoch(call, epoch) ==
    [op |-> call.op, arg |-> call.arg, ok |-> call.ok, t |-> call.t,
     hw |-> call.hw, init |-> call.init, lock |-> call.lock,
     notified |-> call.notified, epoch |-> epoch]

\* nowUTC: now() with its guards, unixtime() of what it returned, the offset
\* taken off. `unset` is the unixtime() of the DateTime() that now() returns
\* without the RTC
nowUTC(offsetSeconds, got, unset) ==
    /\ last' = IF ~initialized \/ ~got
               THEN ReturningEpoch(Call("nowUTC", offsetSeconds, FALSE,
                                        InvalidDateTime, FALSE, FALSE),
                                   utcOfLocal(unset, offsetSeconds))
               ELSE ReturningEpoch(Call("nowUTC", offsetSeconds, TRUE, rtcNow,
                                        TRUE, TRUE),
                                   utcOfLocal(unixtime(rtcNow), offsetSeconds))
    /\ UNCHANGED <<initialized, policy, hardware, conc, completedIn, callbacks>>

\* A faulty variant of addSchedule: the test of MAX_SCHEDULES left out
addScheduleUnchecked(schedule, gotStart, gotAlarm) ==
    LET newSchedule ==
            IF schedule.id = 0
            THEN [schedule EXCEPT !.id = getNextFreeScheduleId(schedules)]
            ELSE schedule
        added == Append(schedules, newSchedule)
        plan == setAlarmForNextScheduleValue(added, gotStart, gotAlarm)
    IN  /\ schedules' = added
        /\ alarm1' = plan.alarm
        /\ last' = Call("addSchedule", schedule.id, TRUE, InvalidDateTime,
                        plan.hw, plan.hw)
        /\ UNCHANGED <<initialized, vacationMode, pumpExercise, rtcNow, alarm2,
                       alarmFired, conc, completedIn, callbacks>>

addSchedule(schedule, gotStart, gotAlarm) ==
    IF Len(schedules) >= MAX_SCHEDULES
    THEN /\ last' = Call("addSchedule", schedule.id, FALSE, InvalidDateTime,
                         FALSE, FALSE)
         /\ UNCHANGED <<initialized, policy, hardware, conc, completedIn, callbacks>>
    ELSE LET newSchedule ==
                 IF schedule.id = 0
                 THEN [schedule EXCEPT !.id = getNextFreeScheduleId(schedules)]
                 ELSE schedule
             added == Append(schedules, newSchedule)
             plan == setAlarmForNextScheduleValue(added, gotStart, gotAlarm)
         IN  /\ schedules' = added
             /\ alarm1' = plan.alarm
             /\ last' = Call("addSchedule", schedule.id, TRUE, InvalidDateTime,
                             plan.hw, plan.hw)
             /\ UNCHANGED <<initialized, vacationMode, pumpExercise, rtcNow,
                            alarm2, alarmFired, conc, completedIn, callbacks>>

\* A faulty variant of updateSchedule: the id of the argument is kept
updateScheduleTakingId(scheduleId, schedule, gotStart, gotAlarm) ==
    LET i == findSchedule(schedules, scheduleId)
        updated == [schedules EXCEPT ![i] = schedule]
        plan == setAlarmForNextScheduleValue(updated, gotStart, gotAlarm)
    IN  IF i = 0
        THEN /\ last' = Call("updateSchedule", scheduleId, FALSE, InvalidDateTime,
                             FALSE, FALSE)
             /\ UNCHANGED <<initialized, policy, hardware, conc, completedIn, callbacks>>
        ELSE /\ schedules' = updated
             /\ alarm1' = plan.alarm
             /\ last' = Call("updateSchedule", scheduleId, TRUE, InvalidDateTime,
                             plan.hw, plan.hw)
             /\ UNCHANGED <<initialized, vacationMode, pumpExercise, rtcNow,
                            alarm2, alarmFired, conc, completedIn, callbacks>>

updateSchedule(scheduleId, schedule, gotStart, gotAlarm) ==
    LET i == findSchedule(schedules, scheduleId)
        updated == [schedules EXCEPT ![i] = [schedule EXCEPT !.id = scheduleId]]
        plan == setAlarmForNextScheduleValue(updated, gotStart, gotAlarm)
    IN  IF i = 0
        THEN /\ last' = Call("updateSchedule", scheduleId, FALSE, InvalidDateTime,
                             FALSE, FALSE)
             /\ UNCHANGED <<initialized, policy, hardware, conc, completedIn, callbacks>>
        ELSE /\ schedules' = updated
             /\ alarm1' = plan.alarm
             /\ last' = Call("updateSchedule", scheduleId, TRUE, InvalidDateTime,
                             plan.hw, plan.hw)
             /\ UNCHANGED <<initialized, vacationMode, pumpExercise, rtcNow,
                            alarm2, alarmFired, conc, completedIn, callbacks>>

\* A faulty variant of removeSchedule: the alarm is planned again also when
\* no schedule was found
removeScheduleReplanning(scheduleId, gotStart, gotAlarm) ==
    LET kept == SelectSeq(schedules, LAMBDA s : s.id # scheduleId)
        plan == setAlarmForNextScheduleValue(kept, gotStart, gotAlarm)
    IN  /\ schedules' = kept
        /\ alarm1' = plan.alarm
        /\ last' = Call("removeSchedule", scheduleId, Len(kept) # Len(schedules),
                        InvalidDateTime, plan.hw, plan.hw)
        /\ UNCHANGED <<initialized, vacationMode, pumpExercise, rtcNow,
                       alarm2, alarmFired, conc, completedIn, callbacks>>

\* std::remove_if keeps, in order, the schedules whose id is not scheduleId
removeSchedule(scheduleId, gotStart, gotAlarm) ==
    LET kept == SelectSeq(schedules, LAMBDA s : s.id # scheduleId)
        plan == setAlarmForNextScheduleValue(kept, gotStart, gotAlarm)
    IN  IF Len(kept) = Len(schedules)
        THEN /\ last' = Call("removeSchedule", scheduleId, FALSE, InvalidDateTime,
                             FALSE, FALSE)
             /\ UNCHANGED <<initialized, policy, hardware, conc, completedIn, callbacks>>
        ELSE /\ schedules' = kept
             /\ alarm1' = plan.alarm
             /\ last' = Call("removeSchedule", scheduleId, TRUE, InvalidDateTime,
                             plan.hw, plan.hw)
             /\ UNCHANGED <<initialized, vacationMode, pumpExercise, rtcNow,
                            alarm2, alarmFired, conc, completedIn, callbacks>>

clearAllSchedules ==
    /\ schedules' = <<>>
    /\ last' = Call("clearAllSchedules", 0, TRUE, InvalidDateTime, FALSE, FALSE)
    /\ UNCHANGED <<initialized, vacationMode, pumpExercise, hardware, conc,
                   completedIn, callbacks>>

\* The clock is read for the vacation test when vacation is enabled, and by
\* each isWithinSchedule(id) that finds an enabled schedule
isWithinAnySchedule(got) ==
    /\ last' =
         IF ~initialized \/ ~got
         THEN Call("isWithinAnySchedule", 0, FALSE, InvalidDateTime, FALSE, FALSE)
         ELSE Call("isWithinAnySchedule", 0,
                   withinAnySchedule(schedules, vacationMode, rtcNow),
                   InvalidDateTime,
                   vacationMode.enabled
                       \/ \E i \in 1..Len(schedules) : schedules[i].enabled,
                   TRUE)
    /\ UNCHANGED <<initialized, policy, hardware, conc, completedIn, callbacks>>

isWithinSchedule(scheduleId, got) ==
    /\ last' =
         IF ~initialized \/ ~got
         THEN Call("isWithinSchedule", scheduleId, FALSE, InvalidDateTime,
                   FALSE, FALSE)
         ELSE LET i == findSchedule(schedules, scheduleId)
              IN  Call("isWithinSchedule", scheduleId,
                       withinSchedule(schedules, scheduleId, rtcNow),
                       InvalidDateTime, i # 0 /\ schedules[i].enabled, TRUE)
    /\ UNCHANGED <<initialized, policy, hardware, conc, completedIn, callbacks>>

getNextScheduledStart(got) ==
    /\ LET next == getNextScheduledStartValue(schedules, got)
       IN  last' = Call("getNextScheduledStart", 0, isValid(next.t), next.t,
                        next.hw, initialized /\ got)
    /\ UNCHANGED <<initialized, policy, hardware, conc, completedIn, callbacks>>

setVacationMode(enabled, start, end) ==
    /\ vacationMode' = [vacationMode EXCEPT !.enabled = enabled,
                                            !.startDate = start,
                                            !.endDate = end]
    /\ last' = Call("setVacationMode", 0, TRUE, InvalidDateTime, FALSE, FALSE)
    /\ UNCHANGED <<initialized, schedules, pumpExercise, hardware, conc,
                   completedIn, callbacks>>

\* isVacationMode: [ok, hw]
isVacationModeValue(got) ==
    IF ~vacationMode.enabled \/ ~initialized \/ ~got
    THEN [ok |-> FALSE, hw |-> FALSE]
    ELSE [ok |-> vacationCovers(vacationMode, rtcNow), hw |-> TRUE]

isVacationMode(got) ==
    /\ LET vacation == isVacationModeValue(got)
       IN  last' = Call("isVacationMode", 0, vacation.ok, InvalidDateTime,
                        vacation.hw, vacation.hw)
    /\ UNCHANGED <<initialized, policy, hardware, conc, completedIn, callbacks>>

setPumpExercise(enabled, dayOfMonth, hr, mn, durationSeconds) ==
    /\ pumpExercise' = [pumpExercise EXCEPT !.enabled = enabled,
                                            !.dayOfMonth = dayOfMonth,
                                            !.hour = hr,
                                            !.minute = mn,
                                            !.durationSeconds = durationSeconds]
    /\ last' = Call("setPumpExercise", 0, TRUE, InvalidDateTime, FALSE, FALSE)
    /\ UNCHANGED <<initialized, schedules, vacationMode, hardware, conc,
                   completedIn, callbacks>>

\* A faulty variant of ranThisMonth: it compares the months only
ranThisMonthOfAnyYear(lastRun, current) ==
    isValid(lastRun) /\ month(lastRun) = month(current)

\* Check if we already ran it this month
ranThisMonth(lastRun, current) ==
    /\ isValid(lastRun)
    /\ year(lastRun) = year(current)
    /\ month(lastRun) = month(current)

\* The nested isVacationMode() takes the mutex its caller holds
isPumpExerciseTime(got) ==
    /\ last' =
           IF ~pumpExercise.enabled \/ ~initialized \/ ~got
           THEN Call("isPumpExerciseTime", 0, FALSE, InvalidDateTime, FALSE, FALSE)
           ELSE IF isVacationModeValue(TRUE).ok /\ ~vacationMode.runPumpExercise
           THEN Call("isPumpExerciseTime", 0, FALSE, InvalidDateTime, TRUE, TRUE)
           ELSE Call("isPumpExerciseTime", 0,
                     /\ dayOfTheMonth(rtcNow) = pumpExercise.dayOfMonth
                     /\ hour(rtcNow) = pumpExercise.hour
                     /\ minute(rtcNow) = pumpExercise.minute
                     /\ ~ranThisMonth(pumpExercise.lastRun, rtcNow),
                     InvalidDateTime, TRUE, TRUE)
    /\ UNCHANGED <<initialized, policy, hardware, conc, completedIn, callbacks>>

\* A faulty variant of markPumpExerciseComplete: the test of hasLock() left
\* out
markPumpExerciseCompleteUnlocked(got) ==
    /\ IF ~initialized
       THEN /\ last' = Call("markPumpExerciseComplete", 0, FALSE, InvalidDateTime,
                            FALSE, FALSE)
            /\ UNCHANGED <<pumpExercise, completedIn>>
       ELSE /\ pumpExercise' = [pumpExercise EXCEPT !.lastRun = rtcNow]
            /\ completedIn' = completedIn \union {<<year(rtcNow), month(rtcNow)>>}
            /\ last' = Call("markPumpExerciseComplete", 0, TRUE, InvalidDateTime,
                            TRUE, got)
    /\ UNCHANGED <<initialized, schedules, vacationMode, hardware, conc,
                   callbacks>>

markPumpExerciseComplete(got) ==
    /\ IF ~initialized \/ ~got
       THEN /\ last' = Call("markPumpExerciseComplete", 0, FALSE, InvalidDateTime,
                            FALSE, FALSE)
            /\ UNCHANGED <<pumpExercise, completedIn>>
       ELSE /\ pumpExercise' = [pumpExercise EXCEPT !.lastRun = rtcNow]
            /\ completedIn' = completedIn \union {<<year(rtcNow), month(rtcNow)>>}
            /\ last' = Call("markPumpExerciseComplete", 0, TRUE, InvalidDateTime,
                            TRUE, TRUE)
    /\ UNCHANGED <<initialized, schedules, vacationMode, hardware, conc,
                   callbacks>>

getTemperatureCelsius(got) ==
    /\ last' = IF ~initialized \/ ~got
               THEN Call("getTemperatureCelsius", 0, FALSE, InvalidDateTime,
                         FALSE, FALSE)
               ELSE Call("getTemperatureCelsius", 0, TRUE, InvalidDateTime,
                         TRUE, TRUE)
    /\ UNCHANGED <<initialized, policy, hardware, conc, completedIn, callbacks>>

\* A faulty variant of setAlarmForNextSchedule: the start is programmed
\* into alarm 2
setAlarmForNextScheduleSlot2(gotStart, gotAlarm) ==
    /\ LET armed == setAlarmForNextScheduleValue(schedules, gotStart, gotAlarm)
       IN  /\ alarm2' = IF armed.ok
                        THEN [armed.alarm EXCEPT !.mode = "A2_Minute"]
                        ELSE alarm2
           /\ last' = Call("setAlarmForNextSchedule", 0, armed.ok,
                           InvalidDateTime, armed.hw, armed.hw)
    /\ UNCHANGED <<initialized, policy, rtcNow, alarm1, alarmFired, conc,
                   completedIn, callbacks>>

setAlarmForNextSchedule(gotStart, gotAlarm) ==
    /\ LET armed == setAlarmForNextScheduleValue(schedules, gotStart, gotAlarm)
       IN  /\ alarm1' = armed.alarm
           /\ last' = Call("setAlarmForNextSchedule", 0, armed.ok,
                           InvalidDateTime, armed.hw, armed.hw)
    /\ UNCHANGED <<initialized, policy, rtcNow, alarm2, alarmFired, conc,
                   completedIn, callbacks>>

setAlarm1(dt, matchSeconds, got) ==
    /\ LET armed == setAlarm1Value(dt, matchSeconds, got)
       IN  /\ alarm1' = armed.alarm
           /\ last' = Call("setAlarm1", 0, armed.ok, dt, armed.hw, armed.hw)
    /\ UNCHANGED <<initialized, policy, rtcNow, alarm2, alarmFired, conc,
                   completedIn, callbacks>>

\* No test of dt.isValid() here
setAlarm2(dt, got) ==
    /\ IF ~initialized \/ ~got
       THEN /\ last' = Call("setAlarm2", 0, FALSE, dt, FALSE, FALSE)
            /\ UNCHANGED alarm2
       ELSE /\ alarm2' = [set |-> TRUE, time |-> dt, mode |-> "A2_Minute"]
            /\ last' = Call("setAlarm2", 0, TRUE, dt, TRUE, TRUE)
    /\ UNCHANGED <<initialized, policy, rtcNow, alarm1, alarmFired, conc,
                   completedIn, callbacks>>

\* _rtc.clearAlarm(n) clears the fired flag of alarm n, not its programming
clearAlarm(alarmNumber, got) ==
    /\ IF ~initialized \/ ~got
       THEN /\ last' = Call("clearAlarm", alarmNumber, FALSE, InvalidDateTime,
                            FALSE, FALSE)
            /\ UNCHANGED alarmFired
       ELSE /\ alarmFired' = [alarmFired EXCEPT ![alarmNumber] = FALSE]
            /\ last' = Call("clearAlarm", alarmNumber, TRUE, InvalidDateTime,
                            TRUE, TRUE)
    /\ UNCHANGED <<initialized, policy, rtcNow, alarm1, alarm2, conc,
                   completedIn, callbacks>>

isAlarmFired(alarmNumber, got) ==
    /\ last' = IF ~initialized \/ ~got
               THEN Call("isAlarmFired", alarmNumber, FALSE, InvalidDateTime,
                         FALSE, FALSE)
               ELSE Call("isAlarmFired", alarmNumber, alarmFired[alarmNumber],
                         InvalidDateTime, TRUE, TRUE)
    /\ UNCHANGED <<initialized, policy, hardware, conc, completedIn, callbacks>>

acknowledgeAlarm(alarmNumber, got) ==
    /\ IF ~initialized \/ ~got
       THEN /\ last' = Call("acknowledgeAlarm", alarmNumber, FALSE,
                            InvalidDateTime, FALSE, FALSE)
            /\ UNCHANGED alarmFired
       ELSE /\ alarmFired' = [alarmFired EXCEPT ![alarmNumber] = FALSE]
            /\ last' = Notifying(Call("acknowledgeAlarm", alarmNumber, TRUE,
                                      InvalidDateTime, TRUE, TRUE),
                                 Invoked("alarm", alarmNumber))
    /\ UNCHANGED <<initialized, policy, rtcNow, alarm1, alarm2, conc,
                   completedIn, callbacks>>

\* The RTC counts on by itself
tick(t) ==
    /\ t > rtcNow
    /\ rtcNow' = t
    /\ last' = NoCall
    /\ UNCHANGED <<initialized, policy, alarm1, alarm2, alarmFired, conc,
                   completedIn, callbacks>>

\* The RTC counts on between two calls: what the call before returned is
\* still at hand
runsOn(t) ==
    /\ t > rtcNow
    /\ rtcNow' = t
    /\ UNCHANGED <<initialized, policy, alarm1, alarm2, alarmFired, last, conc,
                   completedIn, callbacks>>

\* The RTC raises the flag of a programmed alarm when the clock matches it
alarmFires(alarmNumber) ==
    /\ IF alarmNumber = 1 THEN alarm1.set ELSE alarm2.set
    /\ ~alarmFired[alarmNumber]
    /\ alarmFired' = [alarmFired EXCEPT ![alarmNumber] = TRUE]
    /\ last' = NoCall
    /\ UNCHANGED <<initialized, policy, rtcNow, alarm1, alarm2, conc,
                   completedIn, callbacks>>

----------------------------------------------------------------------------
(* Persistence *)

\* A buffer handed to deserializeSchedules: dataSize bytes are the caller's,
\* b0..b3 is the header, recs is the record area, 7 + 32 bytes for every
\* record the header announces (what is read there, also where that lies past
\* dataSize), vac and pump are what the two trailing areas hold as images of
\* the two structs, and stray is what the vacation area reads as when it is
\* taken for the pump exercise
Buffer(null, dataSize, b0, b1, b2, recs, vac, pump, stray) ==
    [null |-> null, dataSize |-> dataSize, b0 |-> b0, b1 |-> b1, b2 |-> b2,
     b3 |-> Len(recs) % 256, recs |-> recs, vac |-> vac, pump |-> pump,
     stray |-> stray]

HeaderSize == 4

\* id, dayMask, four time bytes and enabled, then 32 bytes of name
RecordSize == 7 + 32

\* sizeof(VacationMode): bool, DateTime, DateTime, bool; a DateTime is six bytes
VacationModeSize == 1 + 6 + 6 + 1

\* sizeof(PumpExercise): bool, three uint8_t, uint16_t, DateTime
PumpExerciseSize == 4 + 2 + 6

\* sizeof(Schedule) - sizeof(String): seven bytes and one of padding before
\* the String, which holds a pointer
ScheduleFixedSize == 7 + 1

getScheduleDataSize(scheds) ==
    HeaderSize + Len(scheds) * (ScheduleFixedSize + 32)
    + VacationModeSize + PumpExerciseSize

\* The 32 bytes of a name in the buffer: memcpy of at most 31 bytes, a zero
\* after them, and behind it whatever the buffer held
nameField(name, held) ==
    LET nameLen == IF Len(name) > 31 THEN 31 ELSE Len(name)
    IN  [i \in 1..32 |-> IF i <= nameLen THEN name[i]
                         ELSE IF i = nameLen + 1 THEN 0
                         ELSE held[i]]

writeSchedule(schedule, held) ==
    <<schedule.id, schedule.dayMask, schedule.startHour, schedule.startMinute,
      schedule.endHour, schedule.endMinute, IF schedule.enabled THEN 1 ELSE 0>>
    \o nameField(schedule.name, held)

\* A faulty variant of readName: all 31 bytes, the zero not looked for
readNameWhole(field) == SubSeq(field, 1, 31)

\* memcpy(name, ..., 32); name[31] = 0; String(name): the bytes before the
\* first zero
readName(field) ==
    LET name == [i \in 1..32 |-> IF i = 32 THEN 0 ELSE field[i]]
        zero == CHOOSE i \in 1..32 :
                    name[i] = 0 /\ \A j \in 1..(i - 1) : name[j] # 0
    IN  SubSeq(name, 1, zero - 1)

readSchedule(bytes) ==
    Schedule(bytes[1], bytes[2], bytes[3], bytes[4], bytes[5], bytes[6],
             bytes[7] # 0, readName(SubSeq(bytes, 8, RecordSize)))

\* The buffer as serializeSchedules leaves it: held is what each name field
\* held before, stray what the pump exercise read at the vacation area gives
serialized(scheds, vac, pump, bufferSize, held, stray) ==
    Buffer(FALSE, bufferSize, 211, 35, 1,
           [i \in 1..Len(scheds) |-> writeSchedule(scheds[i], held)],
           vac, pump, stray)

\* `last` keeps the buffer as the call left it
serializeSchedules(null, bufferSize, held, stray) ==
    /\ last' = IF null \/ bufferSize < getScheduleDataSize(schedules)
               THEN Call("serializeSchedules", 0, FALSE, InvalidDateTime,
                         FALSE, FALSE)
               ELSE Call("serializeSchedules",
                         serialized(schedules, vacationMode, pumpExercise,
                                    bufferSize, held, stray),
                         TRUE, InvalidDateTime, FALSE, FALSE)
    /\ UNCHANGED <<initialized, policy, hardware, conc, completedIn, callbacks>>

\* A faulty variant of headerAccepted: any version passes
headerAcceptedAnyVersion(buffer) ==
    /\ ~buffer.null
    /\ buffer.dataSize >= HeaderSize
    /\ buffer.b0 = 211 /\ buffer.b1 = 35
    /\ buffer.b3 <= MAX_SCHEDULES

\* The tests deserializeSchedules makes before it writes: the buffer and its
\* size, the magic number 0xD3 0x23, the version, the count
headerAccepted(buffer) ==
    /\ ~buffer.null
    /\ buffer.dataSize >= HeaderSize
    /\ buffer.b0 = 211 /\ buffer.b1 = 35
    /\ buffer.b2 = 1
    /\ buffer.b3 <= MAX_SCHEDULES

\* `last` keeps the buffer the call was given
deserializeSchedules(buffer) ==
    LET afterRecords == HeaderSize + RecordSize * buffer.b3
        vacRead == afterRecords + VacationModeSize <= buffer.dataSize
        afterVac == IF vacRead THEN afterRecords + VacationModeSize ELSE afterRecords
        pumpRead == afterVac + PumpExerciseSize <= buffer.dataSize
    IN  IF ~headerAccepted(buffer)
        THEN /\ last' = Call("deserializeSchedules", buffer, FALSE,
                             InvalidDateTime, FALSE, FALSE)
             /\ UNCHANGED <<initialized, policy, hardware, conc, completedIn, callbacks>>
        ELSE /\ schedules' = [i \in 1..buffer.b3 |-> readSchedule(buffer.recs[i])]
             /\ vacationMode' = IF vacRead THEN buffer.vac ELSE vacationMode
             /\ pumpExercise' = IF ~pumpRead THEN pumpExercise
                                ELSE IF vacRead THEN buffer.pump
                                ELSE buffer.stray
             /\ last' = Call("deserializeSchedules", buffer, TRUE,
                             InvalidDateTime, FALSE, FALSE)
             /\ UNCHANGED <<initialized, hardware, conc, completedIn, callbacks>>

----------------------------------------------------------------------------
(* What the callers pass *)

\* A name is the sequence of its bytes: 77 111 114 110 105 110 103 is Morning
Morning(id) == Schedule(id, 62, 6, 0, 8, 0, TRUE, 
        <<77, 111, 114, 110, 105, 110, 103>>)
Night(id) == Schedule(id, 127, 23, 0, 1, 0, TRUE, 
        <<78, 105, 103, 104, 116>>)
Empty(id) == Schedule(id, 127, 6, 0, 6, 0, TRUE, 
        <<69, 109, 112, 116, 121>>)
NoDay(id) == Schedule(id, 0, 6, 0, 8, 0, TRUE, 
        <<78, 111, 68, 97, 121>>)
Off(id) == Schedule(id, 127, 6, 0, 8, 0, FALSE, 
        <<79, 102, 102>>)
Sunday(id) == Schedule(id, 1, 23, 0, 1, 0, TRUE, 
        <<83, 117, 110, 100, 97, 121>>)

Wednesday7 == DT(4, 7, 0, 0)
Thursday6 == DT(5, 6, 0, 0)

Vacation(enabled, start, end, runPump) ==
    [enabled |-> enabled, startDate |-> start, endDate |-> end,
     runPumpExercise |-> runPump]

Pump(enabled, dayOfMonth, hr, mn, durationSeconds, lastRun) ==
    [enabled |-> enabled, dayOfMonth |-> dayOfMonth, hour |-> hr, minute |-> mn,
     durationSeconds |-> durationSeconds, lastRun |-> lastRun]

SavedVacation == Vacation(TRUE, Wednesday7, Thursday6, TRUE)
SavedPump == Pump(TRUE, 5, 6, 0, 60, Wednesday7)
StrayPump == Pump(TRUE, 0, 0, 0, 0, InvalidDateTime)

\* The size serializeSchedules fills for n schedules
FullSize(n) == HeaderSize + RecordSize * n + VacationModeSize + PumpExerciseSize

\* What the name fields of a buffer held before it was written: zeros
Zeroed == [i \in 1..32 |-> 0]

\* The record area serializeSchedules writes for the schedules recs
Written(recs) == [i \in 1..Len(recs) |-> writeSchedule(recs[i], Zeroed)]

GoodBuffer(recs) ==
    Buffer(FALSE, FullSize(Len(recs)), 211, 35, 1, Written(recs), SavedVacation,
           SavedPump, StrayPump)

Lock == BOOLEAN

----------------------------------------------------------------------------
(* SpecGate: the calls a program makes until begin() has succeeded *)

GateInputs == {Morning(0), Morning(1)}
GateTimes == {Wednesday7, Thursday6}
GateBuffers ==
    {GoodBuffer(<<Morning(1)>>),
     Buffer(FALSE, FullSize(1), 0, 35, 1, Written(<<Morning(1)>>), SavedVacation,
            SavedPump, StrayPump)}

NextGate ==
    \/ \E rtcBegins \in BOOLEAN, lostPower \in BOOLEAN, got \in Lock :
           begin(rtcBegins, lostPower, got)
    \/ \E got \in Lock, unbegun \in BOOLEAN :
           ~initialized /\ isRunning(got, unbegun)
    \/ \E dt \in GateTimes \cup {InvalidDateTime}, got \in Lock :
           ~initialized /\ setTime(dt, got)
    \/ \E got \in Lock : ~initialized /\ now(got)
    \/ \E s \in GateInputs, gotStart \in Lock, gotAlarm \in Lock :
           ~initialized /\ Len(schedules) < MaxHeld
                        /\ addSchedule(s, gotStart, gotAlarm)
    \/ \E id \in 1..2, s \in GateInputs, gotStart \in Lock, gotAlarm \in Lock :
           ~initialized /\ updateSchedule(id, s, gotStart, gotAlarm)
    \/ \E id \in 1..2, gotStart \in Lock, gotAlarm \in Lock :
           ~initialized /\ removeSchedule(id, gotStart, gotAlarm)
    \/ ~initialized /\ clearAllSchedules
    \/ \E got \in Lock : ~initialized /\ isWithinAnySchedule(got)
    \/ \E id \in 1..2, got \in Lock : ~initialized /\ isWithinSchedule(id, got)
    \/ \E got \in Lock : ~initialized /\ getNextScheduledStart(got)
    \/ \E enabled \in BOOLEAN :
           ~initialized /\ setVacationMode(enabled, Wednesday7, Thursday6)
    \/ \E enabled \in BOOLEAN :
           ~initialized /\ setPumpExercise(enabled, 5, 7, 0, 60)
    \/ \E got \in Lock : ~initialized /\ markPumpExerciseComplete(got)
    \/ \E b \in GateBuffers : ~initialized /\ deserializeSchedules(b)
    \/ \E got \in Lock : ~initialized /\ getTemperatureCelsius(got)
    \/ \E gotStart \in Lock, gotAlarm \in Lock :
           ~initialized /\ setAlarmForNextSchedule(gotStart, gotAlarm)
    \/ \E dt \in GateTimes, matchSeconds \in BOOLEAN, got \in Lock :
           ~initialized /\ setAlarm1(dt, matchSeconds, got)
    \/ \E dt \in GateTimes, got \in Lock : ~initialized /\ setAlarm2(dt, got)
    \/ \E n \in 1..2, got \in Lock : ~initialized /\ clearAlarm(n, got)
    \/ \E n \in 1..2, got \in Lock : ~initialized /\ isAlarmFired(n, got)
    \/ \E n \in 1..2, got \in Lock : ~initialized /\ acknowledgeAlarm(n, got)
    \/ \E t \in GateTimes : tick(t)

SpecGate == Init /\ [][NextGate]_vars

----------------------------------------------------------------------------
(* SpecSet: the schedule set up to its capacity, one window, one clock time *)

Filled(n) == [i \in 1..n |-> Morning(i)]

SetBuffers ==
    {GoodBuffer(Filled(MAX_SCHEDULES)), GoodBuffer(Filled(MAX_SCHEDULES + 1)),
     GoodBuffer(<<Morning(2), Morning(4)>>)}

NextSet ==
    \/ begin(TRUE, FALSE, TRUE)
    \/ addSchedule(Morning(0), TRUE, TRUE)
    \/ Len(schedules) < MaxChosen /\ addSchedule(Morning(2), TRUE, TRUE)
    \/ \E id \in 1..2 : updateSchedule(id, Morning(5), TRUE, TRUE)
    \/ \E id \in 1..2 : removeSchedule(id, TRUE, TRUE)
    \/ clearAllSchedules
    \/ \E b \in SetBuffers : deserializeSchedules(b)

SpecSet == Init /\ [][NextSet]_vars

----------------------------------------------------------------------------
(* SpecWindow: few schedules, every kind of window, the clock over a week *)

WindowInputs ==
    {Morning(0), Night(0), Empty(0), NoDay(0), Off(1), Sunday(1)}

ClockTimes ==
    {<<0, 30, 0>>, <<6, 0, 0>>, <<7, 0, 0>>, <<8, 0, 0>>, <<12, 0, 0>>,
     <<23, 30, 0>>, <<23, 59, 30>>}

WindowTimes ==
    {DT(d, c[1], c[2], c[3]) : d \in 0..MaxDay, c \in ClockTimes}

\* The alarm registers stay as they are here: setAlarm1's wait for the mutex
\* is the one that fails
NextWindow ==
    \/ begin(TRUE, FALSE, TRUE)
    \/ \E dt \in WindowTimes : setTime(dt, TRUE)
    \/ \E s \in WindowInputs :
           Len(schedules) < MaxHeld /\ addSchedule(s, TRUE, FALSE)
    \/ isWithinAnySchedule(TRUE)
    \/ \E id \in 1..2 : isWithinSchedule(id, TRUE)
    \/ getNextScheduledStart(TRUE)
    \/ setVacationMode(TRUE, DT(1, 23, 30, 0), DT(4, 7, 0, 0))
    \/ \E t \in WindowTimes : tick(t)

SpecWindow == Init /\ [][NextWindow]_vars

----------------------------------------------------------------------------
(* SpecConc: two contexts calling into one controller, statement by        *)
(* statement. pc[c] is where context c stands, loc[c] its local variables, *)
(* mutex the recursive mutex: its owner (0: nobody) and recursion count.   *)

Free(c) == mutex.owner \in {0, c}

Take(c) == [owner |-> c, count |-> mutex.count + 1]

\* A faulty variant of the guard's release: the mutex kept
GiveNothing(c) == mutex

Give(c) ==
    IF mutex.count = 1 THEN [owner |-> 0, count |-> 0]
    ELSE [owner |-> c, count |-> mutex.count - 1]

\* A faulty variant of the guard's wait: hasLock() never tested
WaitedAnyway(c) == {TRUE}

\* What a guard's bounded wait ends in: the mutex when it is free or the
\* caller's own, a timeout while another context keeps it
Waited(c) == IF Free(c) THEN {TRUE} ELSE {FALSE}

Return(c, call) ==
    /\ pc' = [pc EXCEPT ![c] = "idle"]
    /\ loc' = [loc EXCEPT ![c] = <<>>]
    /\ last' = call
    /\ UNCHANGED <<completedIn, callbacks>>

Goto(c, label, locals) ==
    /\ pc' = [pc EXCEPT ![c] = label]
    /\ loc' = [loc EXCEPT ![c] = locals]
    /\ UNCHANGED <<last, completedIn, callbacks>>

\* begin(), called while no other call is under way
beginAlone ==
    /\ \A c \in Ctx : pc[c] = "idle"
    /\ begin(TRUE, FALSE, TRUE)

\* if (_schedules.size() >= MAX_SCHEDULES) return false;
addSchedule_check(c, schedule) ==
    /\ pc[c] = "idle"
    /\ IF Len(schedules) >= MAX_SCHEDULES
       THEN Return(c, Call("addSchedule", schedule.id, FALSE, InvalidDateTime,
                           FALSE, FALSE))
       ELSE Goto(c, "addSchedule_assign", [schedule |-> schedule])
    /\ UNCHANGED <<initialized, policy, hardware, mutex>>

\* Schedule newSchedule = schedule; if (newSchedule.id == 0) newSchedule.id = ...
addSchedule_assign(c) ==
    /\ pc[c] = "addSchedule_assign"
    /\ LET schedule == loc[c].schedule
           newSchedule ==
               IF schedule.id = 0
               THEN [schedule EXCEPT !.id = getNextFreeScheduleId(schedules)]
               ELSE schedule
       IN  Goto(c, "addSchedule_push",
                [schedule |-> schedule, newSchedule |-> newSchedule])
    /\ UNCHANGED <<initialized, policy, hardware, mutex>>

\* _schedules.push_back(newSchedule);
addSchedule_push(c) ==
    /\ pc[c] = "addSchedule_push"
    /\ schedules' = Append(schedules, loc[c].newSchedule)
    /\ Goto(c, "addSchedule_plan", loc[c])
    /\ UNCHANGED <<initialized, vacationMode, pumpExercise, hardware, mutex>>

\* (void)setAlarmForNextSchedule(); return true; the two guards inside are
\* taken and given back within the step
addSchedule_plan(c) ==
    /\ pc[c] = "addSchedule_plan"
    /\ \E gotStart \in Waited(c), gotAlarm \in Waited(c) :
           LET plan == setAlarmForNextScheduleValue(schedules, gotStart, gotAlarm)
           IN  /\ alarm1' = plan.alarm
               /\ Return(c, Call("addSchedule", loc[c].schedule.id, TRUE,
                                 InvalidDateTime, plan.hw, plan.hw))
    /\ UNCHANGED <<initialized, policy, rtcNow, alarm2, alarmFired, mutex>>

\* if (!_initialized) return false; RecursiveMutexGuard lock(_mutex);
\* if (!lock.hasLock()) return false;
isWithinAnySchedule_lock(c) ==
    /\ pc[c] = "idle"
    /\ \E got \in Waited(c) :
           IF ~initialized \/ ~got
           THEN /\ Return(c, Call("isWithinAnySchedule", 0, FALSE,
                                  InvalidDateTime, FALSE, FALSE))
                /\ UNCHANGED mutex
           ELSE /\ mutex' = Take(c)
                /\ Goto(c, "isWithinAnySchedule_vacation", <<>>)
    /\ UNCHANGED <<initialized, policy, hardware>>

\* if (_vacationMode.enabled) { now = _rtc.now(); if (covered) return false; }
isWithinAnySchedule_vacation(c) ==
    /\ pc[c] = "isWithinAnySchedule_vacation"
    /\ IF vacationMode.enabled /\ vacationCovers(vacationMode, rtcNow)
       THEN /\ Return(c, Call("isWithinAnySchedule", 0, FALSE, InvalidDateTime,
                              TRUE, TRUE))
            /\ mutex' = Give(c)
       ELSE /\ Goto(c, "isWithinAnySchedule_scan",
                    [i |-> 1, hw |-> vacationMode.enabled])
            /\ UNCHANGED mutex
    /\ UNCHANGED <<initialized, policy, hardware>>

\* for (const auto& schedule : _schedules)
\*     if (isWithinSchedule(schedule.id)) return true;
\* return false;
\* isWithinSchedule reads the clock when the schedule it finds is enabled
isWithinAnySchedule_scan(c) ==
    /\ pc[c] = "isWithinAnySchedule_scan"
    /\ LET i == loc[c].i
           read == loc[c].hw
                   \/ (i <= Len(schedules)
                       /\ Held(schedules[i].id).enabled)
       IN  IF i > Len(schedules)
           THEN /\ Return(c, Call("isWithinAnySchedule", 0, FALSE,
                                  InvalidDateTime, read, TRUE))
                /\ mutex' = Give(c)
           ELSE IF withinSchedule(schedules, schedules[i].id, rtcNow)
           THEN /\ Return(c, Call("isWithinAnySchedule", 0, TRUE,
                                  InvalidDateTime, read, TRUE))
                /\ mutex' = Give(c)
           ELSE /\ Goto(c, "isWithinAnySchedule_scan", [i |-> i + 1, hw |-> read])
                /\ UNCHANGED mutex
    /\ UNCHANGED <<initialized, policy, hardware>>

\* setVacationMode(): three stores and a log line, no guard
setVacationModeBy(c, enabled, start, end) ==
    /\ pc[c] = "idle"
    /\ setVacationMode(enabled, start, end)

ConcInputs == {Morning(0), Night(0)}
ConcTimes == {DT(0, 23, 30, 0), DT(1, 7, 0, 0)}

NextConc ==
    \/ beginAlone
    \/ \E c \in Ctx, s \in ConcInputs :
           Len(schedules) < MaxHeld /\ addSchedule_check(c, s)
    \/ \E c \in Ctx : addSchedule_assign(c)
    \/ \E c \in Ctx : addSchedule_push(c)
    \/ \E c \in Ctx : addSchedule_plan(c)
    \/ \E c \in Ctx : isWithinAnySchedule_lock(c)
    \/ \E c \in Ctx : isWithinAnySchedule_vacation(c)
    \/ \E c \in Ctx : isWithinAnySchedule_scan(c)
    \/ \E c \in Ctx, enabled \in BOOLEAN :
           setVacationModeBy(c, enabled, DT(0, 23, 0, 0), DT(1, 0, 0, 0))
    \/ \E t \in ConcTimes : tick(t)

SpecConc == Init /\ [][NextConc]_vars

----------------------------------------------------------------------------
(* SpecLock: the guarded operations statement by statement, nested calls   *)
(* included. loc[c] is a frame: the public operation under way, the labels *)
(* the nested calls return to, and the locals of the functions entered.    *)

Frame(op, arg) ==
    [op |-> op, ret |-> <<>>, arg |-> arg, ok |-> FALSE, hw |-> FALSE,
     now |-> InvalidDateTime, nextStart |-> InvalidDateTime,
     endNow |-> InvalidDateTime, nextEnd |-> InvalidDateTime, i |-> 0,
     found |-> FALSE, within |-> FALSE]

\* A call of the function entered at `entry`, returning to `back`
Enter(c, entry, back, frame) ==
    Goto(c, entry, [frame EXCEPT !.ret = <<back>> \o @])

\* The return of a nested call to the label its caller continues at
Back(c, frame) ==
    Goto(c, Head(frame.ret), [frame EXCEPT !.ret = Tail(@)])

\* if (_initialized) return true;
begin_check(c) ==
    /\ pc[c] = "idle"
    /\ IF initialized
       THEN Return(c, Call("begin", 0, TRUE, InvalidDateTime, FALSE, FALSE))
       ELSE Goto(c, "begin_lock", Frame("begin", 0))
    /\ UNCHANGED <<initialized, policy, hardware, mutex>>

\* RecursiveMutexGuard lock(_mutex); if (!lock.hasLock()) return false;
begin_lock(c) ==
    /\ pc[c] = "begin_lock"
    /\ \E got \in Waited(c) :
           IF ~got
           THEN /\ Return(c, Call("begin", 0, FALSE, InvalidDateTime, FALSE, FALSE))
                /\ UNCHANGED mutex
           ELSE /\ mutex' = Take(c)
                /\ Goto(c, "begin_hw", loc[c])
    /\ UNCHANGED <<initialized, policy, hardware>>

\* _rtc.begin(wire), lostPower(), adjust(), clearAlarm(1), clearAlarm(2),
\* _lastCheck = _rtc.now(); _initialized = true; return true;
begin_hw(c, rtcBegins, lostPower) ==
    /\ pc[c] = "begin_hw"
    /\ IF ~rtcBegins
       THEN /\ Return(c, Call("begin", 0, FALSE, InvalidDateTime, TRUE, TRUE))
            /\ UNCHANGED <<initialized, hardware>>
       ELSE /\ rtcNow' = IF lostPower THEN CompileTime ELSE rtcNow
            /\ alarmFired' = [n \in 1..2 |-> FALSE]
            /\ initialized' = TRUE
            /\ Return(c, Call("begin", 0, TRUE, InvalidDateTime, TRUE, TRUE))
            /\ UNCHANGED <<alarm1, alarm2>>
    /\ mutex' = Give(c)
    /\ UNCHANGED policy

\* RecursiveMutexGuard lock(_mutex); if (!lock.hasLock()) return false;
isRunning_lock(c) ==
    /\ pc[c] = "idle"
    /\ \E got \in Waited(c) :
           IF ~got
           THEN /\ Return(c, Call("isRunning", 0, FALSE, InvalidDateTime,
                                  FALSE, FALSE))
                /\ UNCHANGED mutex
           ELSE /\ mutex' = Take(c)
                /\ Goto(c, "isRunning_hw", Frame("isRunning", 0))
    /\ UNCHANGED <<initialized, policy, hardware>>

\* DateTime now = _rtc.now(); return now.isValid();
isRunning_hw(c, unbegun) ==
    /\ pc[c] = "isRunning_hw"
    /\ Return(c, Call("isRunning", 0,
                      IF initialized THEN isValid(rtcNow) ELSE unbegun,
                      InvalidDateTime, TRUE, TRUE))
    /\ mutex' = Give(c)
    /\ UNCHANGED <<initialized, policy, hardware>>

\* if (!_initialized) return false; if (!dt.isValid()) return false;
\* RecursiveMutexGuard lock(_mutex); if (!lock.hasLock()) return false;
setTime_lock(c, dt) ==
    /\ pc[c] = "idle"
    /\ \E got \in Waited(c) :
           IF ~initialized \/ ~isValid(dt) \/ ~got
           THEN /\ Return(c, Call("setTime", 0, FALSE, InvalidDateTime,
                                  FALSE, FALSE))
                /\ UNCHANGED mutex
           ELSE /\ mutex' = Take(c)
                /\ Goto(c, "setTime_hw", Frame("setTime", dt))
    /\ UNCHANGED <<initialized, policy, hardware>>

\* _rtc.adjust(dt); if (_timeChangeCallback) _timeChangeCallback(dt);
\* return true;
setTime_hw(c) ==
    /\ pc[c] = "setTime_hw"
    /\ rtcNow' = loc[c].arg
    /\ Return(c, Notifying(Call("setTime", 0, TRUE, InvalidDateTime, TRUE, TRUE),
                           Invoked("time", loc[c].arg)))
    /\ mutex' = Give(c)
    /\ UNCHANGED <<initialized, policy, alarm1, alarm2, alarmFired>>

\* if (!_initialized) return; RecursiveMutexGuard lock(_mutex);
\* if (!lock.hasLock()) return;
acknowledgeAlarm_lock(c, alarmNumber) ==
    /\ pc[c] = "idle"
    /\ \E got \in Waited(c) :
           IF ~initialized \/ ~got
           THEN /\ Return(c, Call("acknowledgeAlarm", alarmNumber, FALSE,
                                  InvalidDateTime, FALSE, FALSE))
                /\ UNCHANGED mutex
           ELSE /\ mutex' = Take(c)
                /\ Goto(c, "acknowledgeAlarm_hw",
                        Frame("acknowledgeAlarm", alarmNumber))
    /\ UNCHANGED <<initialized, policy, hardware>>

\* _rtc.clearAlarm(alarmNumber); if (_alarmCallback) _alarmCallback(alarmNumber);
acknowledgeAlarm_hw(c) ==
    /\ pc[c] = "acknowledgeAlarm_hw"
    /\ alarmFired' = [alarmFired EXCEPT ![loc[c].arg] = FALSE]
    /\ Return(c, Notifying(Call("acknowledgeAlarm", loc[c].arg, TRUE,
                                InvalidDateTime, TRUE, TRUE),
                           Invoked("alarm", loc[c].arg)))
    /\ mutex' = Give(c)
    /\ UNCHANGED <<initialized, policy, rtcNow, alarm1, alarm2>>

\* getNextScheduledStart(), nested: if (!_initialized) return DateTime();
\* RecursiveMutexGuard lock(_mutex); if (!lock.hasLock()) return DateTime();
getNextScheduledStart_lock(c) ==
    /\ pc[c] = "getNextScheduledStart_lock"
    /\ \E got \in Waited(c) :
           IF ~initialized \/ ~got
           THEN /\ Back(c, [loc[c] EXCEPT !.nextStart = InvalidDateTime])
                /\ UNCHANGED mutex
           ELSE /\ mutex' = Take(c)
                /\ Goto(c, "getNextScheduledStart_hw", loc[c])
    /\ UNCHANGED <<initialized, policy, hardware>>

\* DateTime now = _rtc.now(); the loop over _schedules; return nextStart;
getNextScheduledStart_hw(c) ==
    /\ pc[c] = "getNextScheduledStart_hw"
    /\ Back(c, [loc[c] EXCEPT !.nextStart = nextScheduledStart(schedules, rtcNow),
                              !.hw = TRUE])
    /\ mutex' = Give(c)
    /\ UNCHANGED <<initialized, policy, hardware>>

\* setAlarm1(next, false), nested: if (!_initialized) return false;
\* if (!dt.isValid()) return false; RecursiveMutexGuard lock(_mutex);
\* if (!lock.hasLock()) return false;
setAlarm1_lock(c) ==
    /\ pc[c] = "setAlarm1_lock"
    /\ \E got \in Waited(c) :
           IF ~initialized \/ ~isValid(loc[c].nextStart) \/ ~got
           THEN /\ Back(c, [loc[c] EXCEPT !.ok = FALSE])
                /\ UNCHANGED mutex
           ELSE /\ mutex' = Take(c)
                /\ Goto(c, "setAlarm1_hw", loc[c])
    /\ UNCHANGED <<initialized, policy, hardware>>

\* _rtc.setAlarm1(dt, DS3231_A1_Hour); return true;
setAlarm1_hw(c) ==
    /\ pc[c] = "setAlarm1_hw"
    /\ alarm1' = [set |-> TRUE, time |-> loc[c].nextStart, mode |-> "A1_Hour"]
    /\ Back(c, [loc[c] EXCEPT !.ok = TRUE, !.hw = TRUE])
    /\ mutex' = Give(c)
    /\ UNCHANGED <<initialized, policy, rtcNow, alarm2, alarmFired>>

\* setAlarmForNextSchedule(), called by the program:
\* DateTime next = getNextScheduledStart();
setAlarmForNextSchedule_call(c) ==
    /\ pc[c] = "idle"
    /\ Enter(c, "getNextScheduledStart_lock", "setAlarmForNextSchedule_next",
             Frame("setAlarmForNextSchedule", 0))
    /\ UNCHANGED <<initialized, policy, hardware, mutex>>

\* (void)setAlarmForNextSchedule(); at the end of addSchedule
addSchedule_replan(c) ==
    /\ pc[c] = "addSchedule_plan"
    /\ Enter(c, "getNextScheduledStart_lock", "setAlarmForNextSchedule_next",
             Frame("addSchedule", loc[c].schedule.id))
    /\ UNCHANGED <<initialized, policy, hardware, mutex>>

\* What the public operation returns once setAlarmForNextSchedule has ended:
\* addSchedule returns true whatever the planning gave
Planned(c, frame) ==
    Return(c, Call(frame.op, frame.arg,
                   IF frame.op = "addSchedule" THEN TRUE ELSE frame.ok,
                   InvalidDateTime, frame.hw, frame.hw))

\* if (!next.isValid()) return false; return setAlarm1(next, false);
setAlarmForNextSchedule_next(c) ==
    /\ pc[c] = "setAlarmForNextSchedule_next"
    /\ IF ~isValid(loc[c].nextStart)
       THEN Planned(c, [loc[c] EXCEPT !.ok = FALSE])
       ELSE Enter(c, "setAlarm1_lock", "setAlarmForNextSchedule_done", loc[c])
    /\ UNCHANGED <<initialized, policy, hardware, mutex>>

setAlarmForNextSchedule_done(c) ==
    /\ pc[c] = "setAlarmForNextSchedule_done"
    /\ Planned(c, loc[c])
    /\ UNCHANGED <<initialized, policy, hardware, mutex>>

\* 0xFFFFFFFF, the largest uint32_t: more than any number of seconds between
\* two clock times. It is written as the largest integer TLC holds
NoEvent == 2147483647

\* if (!_initialized) return 0xFFFFFFFF; RecursiveMutexGuard lock(_mutex);
\* if (!lock.hasLock()) return 0xFFFFFFFF;
getSecondsUntilNextEvent_lock(c) ==
    /\ pc[c] = "idle"
    /\ \E got \in Waited(c) :
           IF ~initialized \/ ~got
           THEN /\ Return(c, Call("getSecondsUntilNextEvent", 0, FALSE, NoEvent,
                                  FALSE, FALSE))
                /\ UNCHANGED mutex
           ELSE /\ mutex' = Take(c)
                /\ Goto(c, "getSecondsUntilNextEvent_hw",
                        Frame("getSecondsUntilNextEvent", 0))
    /\ UNCHANGED <<initialized, policy, hardware>>

\* DateTime now = _rtc.now(); DateTime nextStart = getNextScheduledStart();
getSecondsUntilNextEvent_hw(c) ==
    /\ pc[c] = "getSecondsUntilNextEvent_hw"
    /\ Enter(c, "getNextScheduledStart_lock", "getSecondsUntilNextEvent_end",
             [loc[c] EXCEPT !.now = rtcNow, !.hw = TRUE])
    /\ UNCHANGED <<initialized, policy, hardware, mutex>>

\* DateTime nextEnd = getNextScheduledEnd();
getSecondsUntilNextEvent_end(c) ==
    /\ pc[c] = "getSecondsUntilNextEvent_end"
    /\ Enter(c, "getNextScheduledEnd_lock", "getSecondsUntilNextEvent_done",
             loc[c])
    /\ UNCHANGED <<initialized, policy, hardware, mutex>>

\* secondsToStart, secondsToEnd, return the sooner
getSecondsUntilNextEvent_done(c) ==
    /\ pc[c] = "getSecondsUntilNextEvent_done"
    /\ LET f == loc[c]
           secondsToStart ==
               IF isValid(f.nextStart) /\ f.nextStart > f.now
               THEN f.nextStart - f.now ELSE NoEvent
           secondsToEnd ==
               IF isValid(f.nextEnd) /\ f.nextEnd > f.now
               THEN f.nextEnd - f.now ELSE NoEvent
           seconds ==
               IF secondsToStart < secondsToEnd THEN secondsToStart
               ELSE secondsToEnd
       IN  Return(c, Call("getSecondsUntilNextEvent", 0, seconds # NoEvent,
                          seconds, TRUE, TRUE))
    /\ mutex' = Give(c)
    /\ UNCHANGED <<initialized, policy, hardware>>

\* getNextScheduledEnd(), nested: if (!_initialized) return DateTime();
\* RecursiveMutexGuard lock(_mutex); if (!lock.hasLock()) return DateTime();
getNextScheduledEnd_lock(c) ==
    /\ pc[c] = "getNextScheduledEnd_lock"
    /\ \E got \in Waited(c) :
           IF ~initialized \/ ~got
           THEN /\ Back(c, [loc[c] EXCEPT !.nextEnd = InvalidDateTime])
                /\ UNCHANGED mutex
           ELSE /\ mutex' = Take(c)
                /\ Goto(c, "getNextScheduledEnd_hw", loc[c])
    /\ UNCHANGED <<initialized, policy, hardware>>

\* DateTime now = _rtc.now(); DateTime nextEnd; bool found = false;
getNextScheduledEnd_hw(c) ==
    /\ pc[c] = "getNextScheduledEnd_hw"
    /\ Goto(c, "getNextScheduledEnd_loop",
            [loc[c] EXCEPT !.endNow = rtcNow, !.nextEnd = InvalidDateTime,
                           !.found = FALSE, !.i = 1, !.hw = TRUE])
    /\ UNCHANGED <<initialized, policy, hardware, mutex>>

\* for (const auto& schedule : _schedules) { if (!schedule.enabled) continue;
\*     if (isWithinSchedule(schedule.id)) ... } return nextEnd;
getNextScheduledEnd_loop(c) ==
    /\ pc[c] = "getNextScheduledEnd_loop"
    /\ IF loc[c].i > Len(schedules)
       THEN /\ Back(c, loc[c])
            /\ mutex' = Give(c)
       ELSE /\ IF ~schedules[loc[c].i].enabled
               THEN Goto(c, "getNextScheduledEnd_loop",
                         [loc[c] EXCEPT !.i = @ + 1])
               ELSE Enter(c, "isWithinSchedule_lock", "getNextScheduledEnd_body",
                          loc[c])
            /\ UNCHANGED mutex
    /\ UNCHANGED <<initialized, policy, hardware>>

\* isWithinSchedule(schedule.id), nested: if (!_initialized) return false;
\* RecursiveMutexGuard lock(_mutex); if (!lock.hasLock()) return false;
isWithinSchedule_lock(c) ==
    /\ pc[c] = "isWithinSchedule_lock"
    /\ \E got \in Waited(c) :
           IF ~initialized \/ ~got
           THEN /\ Back(c, [loc[c] EXCEPT !.within = FALSE])
                /\ UNCHANGED mutex
           ELSE /\ mutex' = Take(c)
                /\ Goto(c, "isWithinSchedule_hw", loc[c])
    /\ UNCHANGED <<initialized, policy, hardware>>

\* the lookup, DateTime current = _rtc.now(), the day and the time range
isWithinSchedule_hw(c) ==
    /\ pc[c] = "isWithinSchedule_hw"
    /\ Back(c, [loc[c] EXCEPT
                   !.within = withinSchedule(schedules, schedules[loc[c].i].id,
                                             rtcNow)])
    /\ mutex' = Give(c)
    /\ UNCHANGED <<initialized, policy, hardware>>

\* DateTime endToday(now.year(), now.month(), now.day(), endHour, endMinute, 0),
\* a day later when the window spans midnight
endToday(schedule, current) ==
    IF schedule.endHour < schedule.startHour
       \/ (schedule.endHour = schedule.startHour
           /\ schedule.endMinute < schedule.startMinute)
    THEN sameDateAt(current, schedule.endHour, schedule.endMinute) + 86400
    ELSE sameDateAt(current, schedule.endHour, schedule.endMinute)

\* if (!found || endToday < nextEnd) { nextEnd = endToday; found = true; }
getNextScheduledEnd_body(c) ==
    /\ pc[c] = "getNextScheduledEnd_body"
    /\ LET f == loc[c]
           end == endToday(schedules[f.i], f.endNow)
       IN  IF f.within /\ (~f.found \/ end < f.nextEnd)
           THEN Goto(c, "getNextScheduledEnd_loop",
                     [f EXCEPT !.nextEnd = end, !.found = TRUE, !.i = @ + 1])
           ELSE Goto(c, "getNextScheduledEnd_loop", [f EXCEPT !.i = @ + 1])
    /\ UNCHANGED <<initialized, policy, hardware, mutex>>

\* The schedules held at once where the locking is explored
MaxLocked == 1

LockInputs == {Night(0)}
LockTimes == {DT(0, 23, 30, 0)}

NextLock ==
    \/ \E c \in Ctx : begin_check(c)
    \/ \E c \in Ctx : begin_lock(c)
    \/ \E c \in Ctx, rtcBegins \in BOOLEAN : begin_hw(c, rtcBegins, FALSE)
    \/ \E c \in Ctx : isRunning_lock(c)
    \/ \E c \in Ctx, unbegun \in BOOLEAN : isRunning_hw(c, unbegun)
    \/ \E c \in Ctx, dt \in LockTimes : setTime_lock(c, dt)
    \/ \E c \in Ctx : setTime_hw(c)
    \/ \E c \in Ctx : acknowledgeAlarm_lock(c, 1)
    \/ \E c \in Ctx : acknowledgeAlarm_hw(c)
    \/ \E c \in Ctx, s \in LockInputs :
           Len(schedules) < MaxLocked /\ addSchedule_check(c, s)
    \/ \E c \in Ctx : addSchedule_assign(c)
    \/ \E c \in Ctx : addSchedule_push(c)
    \/ \E c \in Ctx : addSchedule_replan(c)
    \/ \E c \in Ctx : setAlarmForNextSchedule_call(c)
    \/ \E c \in Ctx : setAlarmForNextSchedule_next(c)
    \/ \E c \in Ctx : setAlarmForNextSchedule_done(c)
    \/ \E c \in Ctx : getNextScheduledStart_lock(c)
    \/ \E c \in Ctx : getNextScheduledStart_hw(c)
    \/ \E c \in Ctx : setAlarm1_lock(c)
    \/ \E c \in Ctx : setAlarm1_hw(c)
    \/ \E c \in Ctx : getSecondsUntilNextEvent_lock(c)
    \/ \E c \in Ctx : getSecondsUntilNextEvent_hw(c)
    \/ \E c \in Ctx : getSecondsUntilNextEvent_end(c)
    \/ \E c \in Ctx : getSecondsUntilNextEvent_done(c)
    \/ \E c \in Ctx : getNextScheduledEnd_lock(c)
    \/ \E c \in Ctx : getNextScheduledEnd_hw(c)
    \/ \E c \in Ctx : getNextScheduledEnd_loop(c)
    \/ \E c \in Ctx : getNextScheduledEnd_body(c)
    \/ \E c \in Ctx : isWithinSchedule_lock(c)
    \/ \E c \in Ctx : isWithinSchedule_hw(c)

SpecLock == Init /\ [][NextLock]_vars

----------------------------------------------------------------------------
(* The queries about the events to come, each as one call                  *)

\* The loop of getNextScheduledEnd: isWithinSchedule(schedule.id) looks the
\* id up again, endToday is computed from the schedule the loop is at
RECURSIVE nextEndLoop(_, _, _, _, _)
nextEndLoop(scheds, i, current, nextEnd, found) ==
    IF i > Len(scheds) THEN nextEnd
    ELSE IF ~scheds[i].enabled \/ ~withinSchedule(scheds, scheds[i].id, current)
         THEN nextEndLoop(scheds, i + 1, current, nextEnd, found)
         ELSE LET end == endToday(scheds[i], current)
              IN  IF ~found \/ end < nextEnd
                  THEN nextEndLoop(scheds, i + 1, current, end, TRUE)
                  ELSE nextEndLoop(scheds, i + 1, current, nextEnd, found)

nextScheduledEnd(scheds, current) ==
    nextEndLoop(scheds, 1, current, InvalidDateTime, FALSE)

\* getNextScheduledEnd: [t, hw]
getNextScheduledEndValue(scheds, got) ==
    IF ~initialized \/ ~got THEN [t |-> InvalidDateTime, hw |-> FALSE]
    ELSE [t |-> nextScheduledEnd(scheds, rtcNow), hw |-> TRUE]

getNextScheduledEnd(got) ==
    /\ LET next == getNextScheduledEndValue(schedules, got)
       IN  last' = Call("getNextScheduledEnd", 0, isValid(next.t), next.t,
                        next.hw, initialized /\ got)
    /\ UNCHANGED <<initialized, policy, hardware, conc, completedIn, callbacks>>

\* Return the soonest event
secondsUntilNextEvent(nextStart, nextEnd, current) ==
    LET secondsToStart ==
            IF isValid(nextStart) /\ nextStart > current
            THEN nextStart - current ELSE NoEvent
        secondsToEnd ==
            IF isValid(nextEnd) /\ nextEnd > current
            THEN nextEnd - current ELSE NoEvent
    IN  IF secondsToStart < secondsToEnd THEN secondsToStart ELSE secondsToEnd

\* The nested calls take the mutex their caller holds; t is the number of
\* seconds returned
getSecondsUntilNextEvent(got) ==
    /\ last' =
           IF ~initialized \/ ~got
           THEN Call("getSecondsUntilNextEvent", 0, FALSE, NoEvent, FALSE, FALSE)
           ELSE LET seconds ==
                        secondsUntilNextEvent(
                            getNextScheduledStartValue(schedules, TRUE).t,
                            getNextScheduledEndValue(schedules, TRUE).t, rtcNow)
                IN  Call("getSecondsUntilNextEvent", 0, seconds # NoEvent,
                         seconds, TRUE, TRUE)
    /\ UNCHANGED <<initialized, policy, hardware, conc, completedIn, callbacks>>

\* The loop of getCurrentActiveSchedule from position i on: the position of
\* the schedule returned, 0 for nullptr
RECURSIVE firstActive(_, _, _)
firstActive(scheds, i, current) ==
    IF i > Len(scheds) THEN 0
    ELSE IF withinSchedule(scheds, scheds[i].id, current) THEN i
    ELSE firstActive(scheds, i + 1, current)

\* Each isWithinSchedule(schedule.id) tests _initialized and takes the mutex
\* for itself; t is the position returned
getCurrentActiveSchedule(got) ==
    /\ last' =
           IF ~initialized \/ ~got
           THEN Call("getCurrentActiveSchedule", 0, FALSE, 0, FALSE, FALSE)
           ELSE LET i == firstActive(schedules, 1, rtcNow)
                    asked == IF i = 0 THEN Len(schedules) ELSE i
                IN  Call("getCurrentActiveSchedule", 0, i # 0, i,
                         \E j \in 1..asked : Held(schedules[j].id).enabled,
                         TRUE)
    /\ UNCHANGED <<initialized, policy, hardware, conc, completedIn, callbacks>>

\* A window inside the morning
Breakfast(id) == Schedule(id, 127, 6, 30, 7, 30, TRUE, <<66>>)

\* The days the clock runs over where the events to come are explored
MaxEventDay == 2

EventInputs ==
    {Morning(0), Night(0), Breakfast(0), Breakfast(1), Off(1), Sunday(1)}

EventClockTimes ==
    {<<0, 30, 0>>, <<6, 0, 0>>, <<7, 0, 0>>, <<7, 30, 0>>, <<23, 30, 0>>}

EventTimes ==
    {DT(d, c[1], c[2], c[3]) : d \in 0..MaxEventDay, c \in EventClockTimes}

NextEvent ==
    \/ begin(TRUE, FALSE, TRUE)
    \/ \E dt \in EventTimes : setTime(dt, TRUE)
    \/ \E s \in EventInputs :
           Len(schedules) < MaxHeld /\ addSchedule(s, TRUE, FALSE)
    \/ \E got \in Lock : getNextScheduledEnd(got)
    \/ \E got \in Lock : getSecondsUntilNextEvent(got)
    \/ \E got \in Lock : getCurrentActiveSchedule(got)

SpecEvent == Init /\ [][NextEvent]_vars

----------------------------------------------------------------------------
(* Setting the clock, with and without a callback for it                   *)

\* 1999-12-31 23:59:59, 2000-01-01 00:00:00, 2000-01-06 23:30:00,
\* 2038-01-19 03:14:08 (2^31), 2101-01-03 00:00:00 and 2106-02-07 06:28:15
\* (2^32 - 1) as seconds since 1970
TimeEpochs ==
    {<<14445, 17279>>, <<14445, 17280>>, <<14453, 9592>>, <<32768, 0>>,
     <<63082, 11648>>, <<65535, 65535>>}

TimeOffsets == {0, 3600, -3600}

NextTime ==
    \/ begin(TRUE, FALSE, TRUE)
    \/ \E dt \in {Wednesday7, InvalidDateTime}, got \in Lock : setTime(dt, got)
    \/ \E utcEpoch \in TimeEpochs, offsetSeconds \in TimeOffsets, got \in Lock :
           setTimeFromUTC(utcEpoch, offsetSeconds, got)
    \/ \E given \in BOOLEAN : onTimeChange(given)
    \/ \E offsetSeconds \in TimeOffsets, got \in Lock,
          unset \in {<<0, 0>>, SECONDS_FROM_1970_TO_2000} :
           nowUTC(offsetSeconds, got, unset)

SpecTime == Init /\ [][NextTime]_vars

----------------------------------------------------------------------------
(* Asking again and again whether a schedule is active, with and without a *)
(* callback for schedule events                                            *)

PollTimes == {DT(0, 6, 0, 0), DT(0, 7, 0, 0), DT(0, 8, 0, 0)}

NextPoll ==
    \/ begin(TRUE, FALSE, TRUE)
    \/ \E dt \in PollTimes : setTime(dt, TRUE)
    \/ \E t \in PollTimes : runsOn(t)
    \/ Len(schedules) < 1 /\ addSchedule(Breakfast(0), TRUE, TRUE)
    \/ \E given \in BOOLEAN : onScheduleEvent(given)
    \/ \E got \in Lock : isWithinSchedule(1, got)
    \/ \E got \in Lock : isWithinAnySchedule(got)
    \/ \E got \in Lock : getCurrentActiveSchedule(got)

SpecPoll == Init /\ [][NextPoll]_vars

----------------------------------------------------------------------------
(* begin() again and again, before and after it has succeeded              *)

NextBegin ==
    \/ \E rtcBegins \in BOOLEAN, lostPower \in BOOLEAN, got \in Lock :
           begin(rtcBegins, lostPower, got)
    \/ \E dt \in {Wednesday7, Thursday6} : setTime(dt, TRUE)
    \/ \E dt \in {Wednesday7, Thursday6} : setAlarm2(dt, TRUE)
    \/ \E n \in 1..2 : alarmFires(n)
    \/ \E got \in Lock : now(got)

SpecBegin == Init /\ [][NextBegin]_vars

----------------------------------------------------------------------------
(* The operations that take the lock, with the lock obtained and not       *)

NextDenied ==
    \/ begin(TRUE, FALSE, TRUE)
    \/ onTimeChange(TRUE)
    \/ onAlarm(TRUE)
    \/ Len(schedules) < 1 /\ addSchedule(Morning(0), TRUE, TRUE)
    \/ setPumpExercise(TRUE, 5, 7, 0, 60)
    \/ \E n \in 1..2 : alarmFires(n)
    \/ \E got \in Lock : setTime(Wednesday7, got)
    \/ \E got \in Lock : now(got)
    \/ \E got \in Lock : setAlarm1(Thursday6, FALSE, got)
    \/ \E got \in Lock : setAlarm2(Thursday6, got)
    \/ \E n \in 1..2, got \in Lock : clearAlarm(n, got)
    \/ \E n \in 1..2, got \in Lock : acknowledgeAlarm(n, got)
    \/ \E n \in 1..2, got \in Lock : isAlarmFired(n, got)
    \/ \E got \in Lock : markPumpExerciseComplete(got)
    \/ \E got \in Lock : isPumpExerciseTime(got)
    \/ \E got \in Lock : isWithinAnySchedule(got)
    \/ \E got \in Lock : isWithinSchedule(1, got)
    \/ \E got \in Lock : getNextScheduledStart(got)
    \/ \E got \in Lock : getNextScheduledEnd(got)
    \/ \E got \in Lock : getSecondsUntilNextEvent(got)
    \/ \E got \in Lock : getTemperatureCelsius(got)

SpecDenied == Init /\ [][NextDenied]_vars

----------------------------------------------------------------------------
(* The day masks of the README and of examples/hot_water_timer over a week *)

\* morningWeekday of the example: dayMask = 0b01111110
WeekdayMorning(id) == Schedule(id, 126, 6, 0, 8, 0, TRUE, <<87, 100>>)

\* morningWeekend of the example, with the window of the morning:
\* dayMask = 0b10000001
WeekendMorning(id) == Schedule(id, 129, 6, 0, 8, 0, TRUE, <<87, 101>>)

NextMask ==
    \/ begin(TRUE, FALSE, TRUE)
    \/ \E d \in 0..6 : setTime(DT(d, 7, 0, 0), TRUE)
    \/ \E s \in {WeekdayMorning(0), WeekendMorning(0)} :
           Len(schedules) < MaxHeld /\ addSchedule(s, TRUE, TRUE)
    \/ \E id \in 1..MaxHeld : removeSchedule(id, TRUE, TRUE)
    \/ \E id \in 1..MaxHeld, got \in Lock : isWithinSchedule(id, got)

SpecMask == Init /\ [][NextMask]_vars

----------------------------------------------------------------------------
(* SpecAgree: the two queries for activity, with and without a vacation    *)

\* Sunday, Monday and Tuesday in the morning, at noon and before midnight
AgreeTimes == {DT(d, h, m, 0) : d \in 1..3, h \in {7, 12, 23}, m \in {30}}

\* Monday, as a vacation
AgreeVacations ==
    {<<TRUE, DT(2, 0, 0, 0), DT(2, 23, 59, 59)>>,
     <<FALSE, DT(2, 0, 0, 0), DT(2, 23, 59, 59)>>}

NextAgree ==
    \/ begin(TRUE, FALSE, TRUE)
    \/ \E dt \in AgreeTimes : setTime(dt, TRUE)
    \/ \E s \in {Morning(0), Night(0), Off(1)} :
           Len(schedules) < MaxHeld /\ addSchedule(s, TRUE, FALSE)
    \/ \E v \in AgreeVacations : setVacationMode(v[1], v[2], v[3])
    \/ \E got \in Lock : isWithinAnySchedule(got)
    \/ \E got \in Lock : getCurrentActiveSchedule(got)

SpecAgree == Init /\ [][NextAgree]_vars

----------------------------------------------------------------------------
(* Changing and removing schedules                                         *)

\* The schedules held at once where changing and removing is explored
MaxEdited == 3

EditInputs == {Morning(0), Off(1), Breakfast(3)}

NextEdit ==
    \/ begin(TRUE, FALSE, TRUE)
    \/ setTime(Wednesday7, TRUE)
    \/ \E s \in EditInputs :
           Len(schedules) < MaxEdited /\ addSchedule(s, TRUE, TRUE)
    \/ \E id \in 1..MaxEdited, s \in EditInputs :
           updateSchedule(id, s, TRUE, TRUE)
    \/ \E id \in 1..MaxEdited : removeSchedule(id, TRUE, TRUE)

SpecEdit == Init /\ [][NextEdit]_vars

----------------------------------------------------------------------------
(* Both alarms next to the planning of alarm 1                             *)

SlotInputs == {Morning(0), Night(0)}

SlotTimes == {Wednesday7, DT(5, 23, 30, 0)}

NextSlot ==
    \/ begin(TRUE, FALSE, TRUE)
    \/ \E dt \in SlotTimes : setTime(dt, TRUE)
    \/ \E s \in SlotInputs :
           Len(schedules) < MaxHeld /\ addSchedule(s, TRUE, TRUE)
    \/ \E id \in 1..MaxHeld, s \in SlotInputs :
           updateSchedule(id, s, TRUE, TRUE)
    \/ \E id \in 1..MaxHeld : removeSchedule(id, TRUE, TRUE)
    \/ setAlarmForNextSchedule(TRUE, TRUE)
    \/ \E dt \in SlotTimes : setAlarm2(dt, TRUE)
    \/ \E n \in 1..2 : clearAlarm(n, TRUE)
    \/ \E n \in 1..2 : acknowledgeAlarm(n, TRUE)
    \/ \E n \in 1..2 : alarmFires(n)

SpecSlot == Init /\ [][NextSlot]_vars

----------------------------------------------------------------------------
(* The monthly pump exercise on an initialized controller                  *)

\* 2000-01-05, 2000-01-06, 2000-02-05 and 2001-01-05 as days after 2000-01-01
PumpDays == {4, 5, 31 + 4, 366 + 4}

PumpTimes ==
    {DT(4, 3, 0, 30), DT(4, 3, 1, 0)} \union {DT(d, 3, 0, 0) : d \in PumpDays}

\* January 2000
PumpVacations ==
    {<<TRUE, DT(0, 0, 0, 0), DT(30, 23, 59, 59)>>,
     <<FALSE, InvalidDateTime, InvalidDateTime>>}

NextPump ==
    \/ begin(TRUE, FALSE, TRUE)
    \/ \E dt \in PumpTimes : setTime(dt, TRUE)
    \/ \E t \in PumpTimes : tick(t)
    \/ \E enabled \in BOOLEAN, dayOfMonth \in 5..6, mn \in 0..1 :
           setPumpExercise(enabled, dayOfMonth, 3, mn, 300)
    \/ \E v \in PumpVacations : setVacationMode(v[1], v[2], v[3])
    \/ \E got \in Lock : isVacationMode(got)
    \/ \E got \in Lock : markPumpExerciseComplete(got)
    \/ \E got \in Lock : isPumpExerciseTime(got)

SpecPump == Init /\ [][NextPump]_vars

----------------------------------------------------------------------------
(* The alarm of the next schedule start, the lock being free at each call  *)

\* The schedules held at once where the planning of the alarm is explored
MaxPlanned == 2

PlanInputs == {Morning(0), Night(0), Off(0), NoDay(0)}

PlanTimes == {Wednesday7, Thursday6, DT(5, 23, 30, 0)}

NextPlan ==
    \/ begin(TRUE, FALSE, TRUE)
    \/ \E dt \in PlanTimes : setTime(dt, TRUE)
    \/ \E t \in PlanTimes : tick(t)
    \/ \E s \in PlanInputs :
           Len(schedules) < MaxPlanned /\ addSchedule(s, TRUE, TRUE)
    \/ \E id \in 1..MaxPlanned, s \in PlanInputs :
           updateSchedule(id, s, TRUE, TRUE)
    \/ \E id \in 1..MaxPlanned : removeSchedule(id, TRUE, TRUE)
    \/ setAlarmForNextSchedule(TRUE, TRUE)
    \/ \E dt \in PlanTimes : setAlarm1(dt, TRUE, TRUE)
    \/ acknowledgeAlarm(1, TRUE)

SpecPlan == Init /\ [][NextPlan]_vars

----------------------------------------------------------------------------
(* Saving the schedules to a buffer and restoring them                     *)

\* The schedules held at once before a buffer is restored
MaxSaved == 2

Named(id, enabled, name) == Schedule(id, 62, 6, 0, 8, 0, enabled, name)

\* Names of 31 and of 32 bytes
Name31 == [i \in 1..31 |-> 65]
Name32 == [i \in 1..32 |-> 66]

SaveInputs ==
    {Morning(0), Off(0), Named(0, TRUE, <<>>), Named(0, TRUE, Name31),
     Named(0, TRUE, Name32)}

\* What the name fields of a buffer held before it was written: zeros, or
\* the 0xFF of erased flash
HeldBytes == {Zeroed, [i \in 1..32 |-> 255]}

\* States of a controller that were saved
SavedSets ==
    {<<>>, <<Morning(1)>>, <<Named(1, TRUE, <<>>)>>,
     <<Named(1, TRUE, Name31), Off(2)>>, <<Named(1, TRUE, Name32)>>,
     Filled(MAX_SCHEDULES)}

SavedStates ==
    [schedules : SavedSets,
     vacationMode : {SavedVacation,
                     Vacation(FALSE, InvalidDateTime, InvalidDateTime, FALSE)},
     pumpExercise : {SavedPump}]

SavedBuffers ==
    {serialized(s.schedules, s.vacationMode, s.pumpExercise,
                getScheduleDataSize(s.schedules), held, StrayPump) :
         s \in SavedStates, held \in HeldBytes}

\* Buffers whose header is refused
RefusedBuffers ==
    LET good == GoodBuffer(<<Morning(1)>>)
    IN  {[good EXCEPT !.b0 = 0], [good EXCEPT !.b1 = 0], [good EXCEPT !.b2 = 2],
         [good EXCEPT !.null = TRUE], [good EXCEPT !.dataSize = 3],
         GoodBuffer(Filled(MAX_SCHEDULES + 1))}

\* Buffers that end 0, 12, 13, 14 or 25 bytes after their one record
ShortBuffers ==
    {[GoodBuffer(<<Morning(1)>>) EXCEPT !.dataSize = HeaderSize + RecordSize + k] :
         k \in {0, 12, 13, 14, 25}}

\* Buffers that end before the end of the records their header announces:
\* `recs` is what the memory after the buffer holds
CutBuffers ==
    {[GoodBuffer(<<Morning(1)>>) EXCEPT !.dataSize = HeaderSize + k] :
         k \in {0, 7, RecordSize - 1}}
    \union {[GoodBuffer(<<Morning(1), Night(2)>>)
                EXCEPT !.dataSize = HeaderSize + RecordSize]}

NextSave ==
    \/ \E s \in SaveInputs :
           Len(schedules) < MaxSaved /\ addSchedule(s, TRUE, TRUE)
    \/ clearAllSchedules
    \/ \E v \in PumpVacations : setVacationMode(v[1], v[2], v[3])
    \/ \E enabled \in BOOLEAN : setPumpExercise(enabled, 1, 3, 0, 300)
    \/ \E null \in BOOLEAN, short \in 0..1, held \in HeldBytes :
           serializeSchedules(null, getScheduleDataSize(schedules) - short,
                              held, StrayPump)
    \/ \E b \in SavedBuffers \union RefusedBuffers \union ShortBuffers
                 \union CutBuffers :
           deserializeSchedules(b)

SpecSave == Init /\ [][NextSave]_vars

----------------------------------------------------------------------------
(* Window evaluation (SpecWindow) *)

DaysOf(dayMask) == {d \in 0..6 : (dayMask \div 2 ^ d) % 2 = 1}

MinuteOfDay(dt) == (dt % 86400) \div 60

StartMinute(s) == s.startHour * 60 + s.startMinute

EndMinute(s) == s.endHour * 60 + s.endMinute

\* The window of s as the specification defines it
ActiveAt(s, current) ==
    /\ s.enabled
    /\ dayOfTheWeek(current) \in DaysOf(s.dayMask)
    /\ IF StartMinute(s) <= EndMinute(s)
       THEN StartMinute(s) <= MinuteOfDay(current)
            /\ MinuteOfDay(current) < EndMinute(s)
       ELSE MinuteOfDay(current) >= StartMinute(s)
            \/ MinuteOfDay(current) < EndMinute(s)

Answered(op) == last.op = op /\ last.init /\ last.lock

\* C1: on an initialized controller whose lock is free, isWithinSchedule(id)
\* returns true exactly when the schedule s held under id is enabled, the
\* clock's day of the week is set in s.dayMask and the clock's minute of the
\* day m has start <= m < end (start <= end) or m >= start or m < end
\* (start > end); a schedule with start = end is active at no time, and a
\* 23:00-01:00 all-days schedule is active at 23:30 and 00:30, not at 12:00.
C1_IsActive ==
    (Answered("isWithinSchedule") /\ findSchedule(schedules, last.arg) # 0) =>
        LET s == Held(last.arg)
            allDaysNight == /\ s.enabled /\ s.dayMask = 127
                            /\ StartMinute(s) = 23 * 60 /\ EndMinute(s) = 60
        IN  /\ last.ok = ActiveAt(s, rtcNow)
            /\ StartMinute(s) = EndMinute(s) => ~last.ok
            /\ allDaysNight /\ MinuteOfDay(rtcNow) = 23 * 60 + 30 => last.ok
            /\ allDaysNight /\ MinuteOfDay(rtcNow) = 30 => last.ok
            /\ allDaysNight /\ MinuteOfDay(rtcNow) = 12 * 60 => ~last.ok

\* C1's case: the all-days 23:00-01:00 schedule answered active at 00:30
C1_Witness ==
    /\ Answered("isWithinSchedule")
    /\ findSchedule(schedules, last.arg) # 0
    /\ Held(last.arg) = Night(last.arg)
    /\ MinuteOfDay(rtcNow) = 30
    /\ last.ok

VacationActive ==
    /\ vacationMode.enabled
    /\ vacationMode.startDate <= rtcNow
    /\ rtcNow <= vacationMode.endDate

\* C2: on an initialized controller whose lock is free, isWithinAnySchedule
\* returns true if and only if vacation is not active (enabled and start <=
\* now <= end) and at least one schedule of the set is enabled and active now.
C2_AnyActive ==
    Answered("isWithinAnySchedule") =>
        last.ok = (/\ ~VacationActive
                   /\ \E i \in 1..Len(schedules) : ActiveAt(schedules[i], rtcNow))

\* The start instants of s: its start time, seconds 0, on an enabled weekday
IsStartOf(s, u) ==
    /\ MinuteOfDay(u) = StartMinute(s)
    /\ second(u) = 0
    /\ dayOfTheWeek(u) \in DaysOf(s.dayMask)

StartsNear(s, from) ==
    {DT(d, s.startHour, s.startMinute, 0) :
        d \in dateOf(from)..(dateOf(from) + SearchDays + 1)}

NextOccurrenceRight(s, from) ==
    LET t == calculateNextOccurrence(s, from)
    IN  /\ (~s.enabled \/ s.dayMask = 0) => ~isValid(t)
        /\ isValid(t) =>
               /\ t > from
               /\ IsStartOf(s, t)
               /\ \A u \in StartsNear(s, from) :
                      ~(from < u /\ u < t /\ IsStartOf(s, u))

\* C3: for every schedule s held and the clock time `from`,
\* calculateNextOccurrence(s, from) is none when s is disabled or s.dayMask
\* is 0, and any timestamp it returns is strictly after `from`, at s's start
\* time with seconds 0, on a weekday enabled in s.dayMask, with no other such
\* instant strictly between `from` and it.
C3_NextOccurrence ==
    \A i \in 1..Len(schedules) : NextOccurrenceRight(schedules[i], rtcNow)

\* C3's case: a Sunday-only 23:00 schedule asked on Sunday 23:30 starts next
\* a week later, and getNextScheduledStart has returned that
C3_Witness ==
    /\ Answered("getNextScheduledStart")
    /\ schedules = <<Sunday(1)>>
    /\ rtcNow = DT(1, 23, 30, 0)
    /\ calculateNextOccurrence(schedules[1], rtcNow) = DT(8, 23, 0, 0)
    /\ last.t = DT(8, 23, 0, 0)

Occurrences ==
    {calculateNextOccurrence(schedules[i], rtcNow) :
        i \in {j \in 1..Len(schedules) : schedules[j].enabled}}
    \ {InvalidDateTime}

\* C4: on an initialized controller whose lock is free, getNextScheduledStart
\* returns the minimum of calculateNextOccurrence(s, now) over the enabled
\* schedules (none when there is no occurrence); a single Mon-Fri 06:00-08:00
\* schedule asked on Wednesday 07:00 gives Thursday 06:00.
C4_NextScheduledStart ==
    Answered("getNextScheduledStart") =>
        /\ IF Occurrences = {} THEN ~isValid(last.t)
           ELSE last.t \in Occurrences /\ \A t \in Occurrences : last.t <= t
        /\ (schedules = <<Morning(1)>> /\ rtcNow = Wednesday7) =>
               last.t = Thursday6

\* C4's case: the Wednesday 07:00 question, answered Thursday 06:00
C4_Witness ==
    /\ Answered("getNextScheduledStart")
    /\ schedules = <<Morning(1)>>
    /\ rtcNow = Wednesday7
    /\ last.t = Thursday6

----------------------------------------------------------------------------
(* The schedule set (SpecSet) *)

Ids(scheds) == {scheds[i].id : i \in 1..Len(scheds)}

IdsInOrder(scheds) == [i \in 1..Len(scheds) |-> scheds[i].id]

Returned(op) == last'.op = op

\* C5: the set never holds more than 10 schedules, whatever sequence of
\* addSchedule, updateSchedule, removeSchedule, clearAllSchedules and
\* deserializeSchedules ran, and an addSchedule called while 10 are held
\* fails and leaves the set unchanged.
C5_AtMostTen ==
    /\ [](Len(schedules) <= MAX_SCHEDULES)
    /\ [][(Returned("addSchedule") /\ Len(schedules) = MAX_SCHEDULES) =>
              (~last'.ok /\ schedules' = schedules)]_vars

\* C5's case: an addSchedule refused with ten schedules held
C5_Witness ==
    /\ Len(schedules) = MAX_SCHEDULES
    /\ last.op = "addSchedule"
    /\ ~last.ok

\* C6: no two schedules of the set carry the same id, whatever sequence of
\* addSchedule (with a caller-chosen id or with 0), updateSchedule and
\* removeSchedule ran.
C6_UniqueIds ==
    \A i, j \in 1..Len(schedules) :
        i # j => schedules[i].id # schedules[j].id

\* C7: an addSchedule called with id 0 that succeeds appends the schedule
\* under the smallest id >= 1 that no held schedule carries (gaps left by
\* removals and caller-chosen ids included), and an automatic add into a set
\* holding ids 1..k in order stores k+1, so ten of them into an empty set
\* store 1..10 in order.
C7_SmallestFreeId ==
    [][(Returned("addSchedule") /\ last'.arg = 0 /\ last'.ok) =>
           LET stored == schedules'[Len(schedules')]
           IN  /\ Len(schedules') = Len(schedules) + 1
               /\ SubSeq(schedules', 1, Len(schedules)) = schedules
               /\ stored.id >= 1
               /\ stored.id \notin Ids(schedules)
               /\ \A k \in 1..(stored.id - 1) : k \in Ids(schedules)
               /\ IdsInOrder(schedules) = [i \in 1..Len(schedules) |-> i] =>
                      stored.id = Len(schedules) + 1]_vars

\* C7's case: the tenth automatic add completed a set holding 1..10 in order
C7_Witness ==
    /\ last.op = "addSchedule"
    /\ last.arg = 0
    /\ last.ok
    /\ IdsInOrder(schedules) = [i \in 1..MAX_SCHEDULES |-> i]

----------------------------------------------------------------------------
(* Before begin() has succeeded (SpecGate) *)

\* C8: a public operation other than begin() that is entered before begin()
\* has succeeded does not access the RTC hardware: every method that
\* accesses the RTC tests the initialization flag first.
C8_NoHardwareBeforeBegin ==
    (last.op \notin {"none", "begin"} /\ ~last.init) => ~last.hw

Mutators ==
    {"addSchedule", "updateSchedule", "removeSchedule", "setVacationMode",
     "setPumpExercise", "markPumpExerciseComplete", "deserializeSchedules",
     "setTime"}

\* The mutators that return nothing cannot report failure
Silent == {"setVacationMode", "setPumpExercise", "markPumpExerciseComplete"}

\* C9: addSchedule, updateSchedule, removeSchedule, setVacationMode,
\* setPumpExercise, markPumpExerciseComplete, deserializeSchedules and
\* setTime, called before begin() has succeeded, fail and leave the
\* schedules, the vacation settings and the pump exercise settings unchanged.
C9_MutatorsGated ==
    [][(~initialized /\ last'.op \in Mutators) =>
           /\ UNCHANGED policy
           /\ last'.op \notin Silent => ~last'.ok]_vars

----------------------------------------------------------------------------
(* Two contexts (SpecConc) *)

\* Where a context is inside addSchedule, between its first and last statement
Modifying == {"addSchedule_assign", "addSchedule_push", "addSchedule_plan"}

\* Where a context is inside an operation on the schedule, vacation or pump
\* exercise state
Inside ==
    Modifying \cup {"isWithinAnySchedule_vacation", "isWithinAnySchedule_scan"}

\* C10: a context that is inside a public operation on the schedule,
\* vacation or pump exercise state owns the lock for as long as it is
\* inside, so no context is inside such an operation while another is in
\* the middle of modifying that state.
C10_LockHeldThroughout ==
    /\ \A c \in Ctx : pc[c] \in Inside => mutex.owner = c
    /\ \A c, d \in Ctx : (c # d /\ pc[c] \in Modifying) => pc[d] \notin Inside

----------------------------------------------------------------------------
(* The guards (SpecLock) *)

\* Where a context is at a statement that accesses the RTC hardware
AtHardware ==
    {"begin_hw", "isRunning_hw", "setTime_hw", "acknowledgeAlarm_hw",
     "getNextScheduledStart_hw", "setAlarm1_hw", "getSecondsUntilNextEvent_hw",
     "getNextScheduledEnd_hw", "isWithinSchedule_hw"}

\* C11: a context that is at an access to the RTC hardware (in begin,
\* isRunning, setTime, the schedule queries, the alarm operations) owns the
\* controller's lock, so no two contexts are at a hardware access at the
\* same time.
C11_HardwareUnderLock ==
    /\ \A c \in Ctx :
           pc[c] \in AtHardware => (mutex.owner = c /\ mutex.count >= 1)
    /\ \A c, d \in Ctx :
           c # d => ~(pc[c] \in AtHardware /\ pc[d] \in AtHardware)

\* C11's case: one context inside begin()'s hardware accesses while the
\* other, which has also found the controller not begun, waits for the lock
C11_Witness ==
    /\ pc[1] = "begin_hw"
    /\ pc[2] = "begin_lock"
    /\ mutex.owner = 1

\* The labels inside the scope of their function's guard
InGuard ==
    AtHardware \cup
    {"getSecondsUntilNextEvent_end", "getSecondsUntilNextEvent_done",
     "getNextScheduledEnd_loop", "getNextScheduledEnd_body"}

\* The labels at which a function called by another constructs its guard
NestedLock ==
    {"getNextScheduledStart_lock", "getNextScheduledEnd_lock",
     "isWithinSchedule_lock", "setAlarm1_lock"}

\* The labels the calls under way of context c return to
Stack(c) ==
    IF pc[c] \in {"idle", "addSchedule_assign", "addSchedule_push",
                  "addSchedule_plan"}
    THEN <<>>
    ELSE loc[c].ret

\* The guards of context c that are in scope
Depth(c) ==
    (IF pc[c] \in InGuard THEN 1 ELSE 0)
    + Cardinality({k \in 1..Len(Stack(c)) : Stack(c)[k] \in InGuard})

Holds(c) == IF mutex.owner = c THEN mutex.count ELSE 0

\* C13: a context holds the lock exactly as many times as it has guards in
\* scope, on every path: none once its operation has returned, whether by
\* success, early return or failure, and one more for each nested call that
\* has taken it again (getSecondsUntilNextEvent -> getNextScheduledStart,
\* getNextScheduledEnd -> isWithinSchedule; addSchedule ->
\* setAlarmForNextSchedule -> getNextScheduledStart, setAlarm1); and a nested
\* call made by the context that owns the lock always obtains it.
C13_LockBalanced ==
    /\ [](\A c \in Ctx : Holds(c) = Depth(c))
    /\ [][\A c \in Ctx :
              (pc[c] \in NestedLock /\ mutex.owner = c /\ pc'[c] # pc[c]) =>
                  (mutex'.owner = c /\ mutex'.count = mutex.count + 1)]_vars

\* C13's case: isWithinSchedule entered from getNextScheduledEnd, entered
\* from getSecondsUntilNextEvent, the lock held three times
C13_Witness ==
    \E c \in Ctx :
        /\ pc[c] = "isWithinSchedule_hw"
        /\ mutex.owner = c
        /\ mutex.count = 3

----------------------------------------------------------------------------
(* Concurrent additions (SpecConc) *)

\* C12: the contexts of SpecConc add schedules with id 0 only, so running
\* their addSchedule calls one after the other in any order gives a set
\* whose ids are 1, 2, ... in order of insertion and which holds at most 10
\* schedules; every interleaving of two concurrent addSchedule calls gives
\* such a set.
C12_AddsSerializable ==
    /\ IdsInOrder(schedules) = [i \in 1..Len(schedules) |-> i]
    /\ Len(schedules) <= MAX_SCHEDULES

----------------------------------------------------------------------------
(* The monthly pump exercise (SpecPump) *)

\* The days of the years from 2000 on that lie before the first of month m
\* of the year y
RECURSIVE DaysBefore(_, _)
DaysBefore(y, m) ==
    IF m > 1
    THEN DaysBefore(y, m - 1)
         + (IF m - 1 = 2 THEN (IF y % 4 = 0 THEN 29 ELSE 28)
            ELSE IF m - 1 \in {4, 6, 9, 11} THEN 30 ELSE 31)
    ELSE IF y > 2000 THEN DaysBefore(y - 1, 13) ELSE 0

\* dt lies on day d of month m of the year y
OnDate(dt, y, m, d) == dt \div 86400 = DaysBefore(y, m) + d - 1

\* dt lies in month m of the year y
InMonth(dt, y, m) ==
    /\ DaysBefore(y, m) <= dt \div 86400
    /\ dt \div 86400 < DaysBefore(y, m + 1)

Months == (2000..2001) \X (1..12)

\* The maintenance is due at the clock's minute and has not run this month
DueNow ==
    /\ \E ym \in Months :
           OnDate(rtcNow, ym[1], ym[2], pumpExercise.dayOfMonth)
    /\ MinuteOfDay(rtcNow) = pumpExercise.hour * 60 + pumpExercise.minute
    /\ \/ pumpExercise.lastRun = InvalidDateTime
       \/ \A ym \in Months :
              ~(InMonth(rtcNow, ym[1], ym[2])
                /\ InMonth(pumpExercise.lastRun, ym[1], ym[2]))

\* C14: isPumpExerciseTime, evaluated at the clock time now, is false when
\* the maintenance is disabled, false when vacation is active and
\* runPumpExercise is false, and otherwise true if and only if now's day of
\* the month, hour and minute are the configured ones and lastRun is invalid
\* or lies in another (year, month) than now.
C14_IsDue ==
    last.op = "isPumpExerciseTime" =>
        IF ~pumpExercise.enabled THEN ~last.ok
        ELSE last.hw =>
                 IF VacationActive /\ ~vacationMode.runPumpExercise
                 THEN ~last.ok
                 ELSE last.ok <=> DueNow

C14_Witness ==
    /\ last.op = "isPumpExerciseTime"
    /\ last.ok
    /\ VacationActive
    /\ pumpExercise.lastRun # InvalidDateTime

\* C15: once markPumpExerciseComplete has recorded a run at a clock time of
\* some (year, month), isPumpExerciseTime returns false whenever it is
\* evaluated later at a clock time of that (year, month).
C15_OncePerMonth ==
    (/\ last.op = "isPumpExerciseTime"
     /\ \E ym \in completedIn : InMonth(rtcNow, ym[1], ym[2]))
        => ~last.ok

----------------------------------------------------------------------------
(* The alarm of the next schedule start (SpecPlan) *)

ScheduleMutators == {"addSchedule", "updateSchedule", "removeSchedule"}

\* Alarm 1 as the planning programs it for the start dt
PlannedFor(dt) == [set |-> TRUE, time |-> dt, mode |-> "A1_Hour"]

\* C16: after each successful addSchedule, updateSchedule or removeSchedule
\* on an initialized controller whose lock is free, alarm 1 is programmed,
\* matching hour and minute, to the next scheduled start of the resulting
\* schedule set whenever there is one.
C16_ReplannedAfterMutation ==
    (/\ last.op \in ScheduleMutators
     /\ last.ok
     /\ last.init
     /\ isValid(nextScheduledStart(schedules, rtcNow)))
        => alarm1 = PlannedFor(nextScheduledStart(schedules, rtcNow))

C16_Witness ==
    /\ last.op = "removeSchedule"
    /\ last.ok
    /\ last.init
    /\ Len(schedules) = 1
    /\ alarm1 = PlannedFor(nextScheduledStart(schedules, rtcNow))

\* C17: after a planning of the alarm that found no upcoming start, alarm 1
\* is not armed for a schedule start.
C17_NoAlarmWithoutStart ==
    (/\ last.op \in ScheduleMutators \union {"setAlarmForNextSchedule"}
     /\ last.init
     /\ last.lock
     /\ ~isValid(nextScheduledStart(schedules, rtcNow)))
        => ~(alarm1.set /\ alarm1.mode = "A1_Hour")

----------------------------------------------------------------------------
(* Saving and restoring (SpecSave) *)

NamesFit(scheds) == \A i \in 1..Len(scheds) : Len(scheds[i].name) <= 31

\* C18: a buffer of getScheduleDataSize() bytes that serializeSchedules
\* filled from a controller holding 0 to 10 schedules with names of at most
\* 31 bytes, deserialized into a controller of any contents, is accepted and
\* gives the same schedules in the same order and the same vacation and
\* pump exercise state.
C18_RoundTrip ==
    \A s \in SavedStates, held \in HeldBytes :
        (/\ last.op = "deserializeSchedules"
         /\ NamesFit(s.schedules)
         /\ last.arg = serialized(s.schedules, s.vacationMode, s.pumpExercise,
                                  getScheduleDataSize(s.schedules), held,
                                  StrayPump))
            => /\ last.ok
               /\ schedules = s.schedules
               /\ vacationMode = s.vacationMode
               /\ pumpExercise = s.pumpExercise

C18_Witness ==
    /\ last.op = "deserializeSchedules"
    /\ last.ok
    /\ Len(last.arg.recs) = 2
    /\ last.arg.recs[2][RecordSize] = 255
    /\ schedules = <<Named(1, TRUE, Name31), Off(2)>>
    /\ vacationMode = SavedVacation

Refused(buffer) ==
    \/ buffer.null
    \/ buffer.dataSize < 4
    \/ <<buffer.b0, buffer.b1>> # <<211, 35>>
    \/ buffer.b2 # 1
    \/ buffer.b3 > 10

\* C19: deserializeSchedules fails when the buffer is null or shorter than 4
\* bytes, when the magic bytes are not 0xD3 0x23, when the version is not 1
\* or when the count is above 10, and then leaves all state as it was.
C19_RefusedUnchanged ==
    [][(Returned("deserializeSchedules") /\ Refused(last'.arg)) =>
           /\ ~last'.ok
           /\ UNCHANGED <<initialized, schedules, vacationMode, pumpExercise,
                          hardware>>]_vars

C19_Witness ==
    /\ last.op = "deserializeSchedules"
    /\ ~last.ok
    /\ last.arg.b2 = 2
    /\ Len(schedules) = MaxSaved
    /\ vacationMode.enabled

\* C20: when deserializeSchedules is given a buffer that ends before a
\* complete vacation record behind the schedule records, it leaves both the
\* vacation and the pump exercise state as they were.
C20_ShortBufferKeepsBoth ==
    [][(/\ Returned("deserializeSchedules")
        /\ last'.ok
        /\ last'.arg.dataSize < 4 + 39 * last'.arg.b3 + 14) =>
           UNCHANGED <<vacationMode, pumpExercise>>]_vars

----------------------------------------------------------------------------
(* The events to come (SpecEvent) *)

\* The instant at which the window of s that is open at current closes
EndOfWindow(s, current) ==
    LET today == (current \div 86400) * 86400
    IN  IF StartMinute(s) > EndMinute(s) /\ MinuteOfDay(current) >= StartMinute(s)
        THEN today + 86400 + EndMinute(s) * 60
        ELSE today + EndMinute(s) * 60

ActiveNow == {i \in 1..Len(schedules) : ActiveAt(schedules[i], rtcNow)}

EventsToCome ==
    {e \in {nextScheduledStart(schedules, rtcNow),
            nextScheduledEnd(schedules, rtcNow)} : isValid(e)}

\* C22: getSecondsUntilNextEvent returns the seconds from now to the sooner
\* of getNextScheduledStart and getNextScheduledEnd, and the sentinel
\* exactly when neither exists or the controller is uninitialized.
C22_SecondsUntilNextEvent ==
    last.op = "getSecondsUntilNextEvent" =>
        IF ~last.init THEN last.t = NoEvent
        ELSE last.lock =>
                 IF EventsToCome = {} THEN last.t = NoEvent
                 ELSE /\ last.t # NoEvent
                      /\ rtcNow + last.t \in EventsToCome
                      /\ \A e \in EventsToCome : rtcNow + last.t <= e

\* C23: getCurrentActiveSchedule returns the first schedule of the set, in
\* the order of insertion, that is itself enabled and active now, and none
\* only when no schedule of the set is active.
C23_CurrentActive ==
    Answered("getCurrentActiveSchedule") =>
        IF ActiveNow = {} THEN ~last.ok
        ELSE /\ last.ok
             /\ last.t \in ActiveNow
             /\ \A i \in ActiveNow : last.t <= i

----------------------------------------------------------------------------
(* Changing and removing schedules (SpecEdit) *)

Holders(id) == {i \in 1..Len(schedules) : schedules[i].id = id}

\* seq without the positions in gone, the others in their order
Remaining(seq, gone) ==
    LET upTo[i \in 0..Len(seq)] ==
            IF i = 0 THEN <<>>
            ELSE IF i \in gone THEN upTo[i - 1]
            ELSE Append(upTo[i - 1], seq[i])
    IN  upTo[Len(seq)]

UpdatedInPlace(id, s) ==
    \E i \in Holders(id) :
        schedules' = [j \in 1..Len(schedules) |->
                         IF j = i
                         THEN Schedule(id, s.dayMask, s.startHour, s.startMinute,
                                       s.endHour, s.endMinute, s.enabled, s.name)
                         ELSE schedules[j]]

RemovedOnly(id) ==
    \E gone \in SUBSET Holders(id) :
        gone # {} /\ schedules' = Remaining(schedules, gone)

\* C24: a successful updateSchedule(id, s) puts the fields of s at the place
\* of a schedule stored under id and keeps id there whatever s.id is, every
\* other place unchanged; a successful removeSchedule(id) takes out schedules
\* holding id only, and the others stay as they are, in their order
C24_EditsInPlace ==
    [][/\ \A id \in 1..MaxEdited, s \in EditInputs :
             updateSchedule(id, s, TRUE, TRUE) /\ last'.ok
                 => UpdatedInPlace(id, s)
       /\ \A id \in 1..MaxEdited :
             removeSchedule(id, TRUE, TRUE) /\ last'.ok => RemovedOnly(id)]_vars

\* Off's fields at the second of three places under id 2, which only
\* updateSchedule(2, Off(1)) produces, between two other schedules
C24_Witness ==
    /\ last.op = "updateSchedule" /\ last.ok /\ last.arg = 2
    /\ Len(schedules) = 3
    /\ schedules[1] = Morning(1)
    /\ schedules[2] = Off(2)
    /\ schedules[3] = Breakfast(3)

\* C25: updateSchedule and removeSchedule with an id that no schedule holds
\* fail, leave the schedules as they are and reach no alarm of the RTC
C25_NotFoundChangesNothing ==
    [][last'.op \in {"updateSchedule", "removeSchedule"}
           /\ Holders(last'.arg) = {}
           => /\ ~last'.ok
              /\ ~last'.hw
              /\ schedules' = schedules
              /\ alarm1' = alarm1 /\ alarm2' = alarm2
              /\ alarmFired' = alarmFired]_vars

\* removeSchedule has failed while alarm 1 is programmed for a start that
\* planning would no longer choose
C25_Witness ==
    /\ last.op = "removeSchedule" /\ ~last.ok
    /\ initialized /\ alarm1.set
    /\ isValid(nextScheduledStart(schedules, rtcNow))
    /\ alarm1.time # nextScheduledStart(schedules, rtcNow)

----------------------------------------------------------------------------
(* Alarm 2 next to the planning (SpecSlot) *)

Slot2 == <<alarm2, alarmFired[2]>>

Replanning ==
    {"addSchedule", "updateSchedule", "removeSchedule", "setAlarmForNextSchedule"}

\* C27: addSchedule, updateSchedule, removeSchedule and
\* setAlarmForNextSchedule leave the time programmed into alarm 2 and its
\* fired flag as they are; of the operations only setAlarm2, clearAlarm(2),
\* acknowledgeAlarm(2) and begin() change them (the RTC raises the flag)
C27_Slot2Reserved ==
    [][/\ last'.op \in Replanning => Slot2' = Slot2
       /\ Slot2' # Slot2 =>
              \/ last'.op \in {"setAlarm2", "begin"}
              \/ last'.op \in {"clearAlarm", "acknowledgeAlarm"} /\ last'.arg = 2
              \/ last' = NoCall]_vars

\* A schedule was added and alarm 1 planned for it while alarm 2 is
\* programmed for another time and has fired
C27_Witness ==
    /\ last.op = "addSchedule" /\ last.ok
    /\ alarm1.set /\ alarm2.set /\ alarmFired[2]
    /\ alarm1.time # alarm2.time

----------------------------------------------------------------------------
(* Setting the vacation (SpecPump) *)

\* C26: setting the vacation with enabled, start, end and runMaintenance
\* leaves exactly these four values stored and changes nothing else.
\* setVacationMode is the one operation that sets the vacation; it takes
\* enabled, start and end, and runMaintenance is what the caller wants
\* runPumpExercise to be
C26_SetReplacesVacation ==
    [][\A v \in PumpVacations, runMaintenance \in BOOLEAN :
           setVacationMode(v[1], v[2], v[3])
               => /\ vacationMode' =
                         [enabled |-> v[1], startDate |-> v[2],
                          endDate |-> v[3], runPumpExercise |-> runMaintenance]
                  /\ UNCHANGED <<schedules, pumpExercise, alarm1, alarm2,
                                 alarmFired>>]_vars

----------------------------------------------------------------------------
(* Setting the clock (SpecTime) *)

SetsTime == {"setTime", "setTimeFromUTC"}

\* C29: with a callback for time changes set, a setTime or setTimeFromUTC
\* that succeeds has invoked it once, with the time the clock now holds, and
\* one that fails has not invoked it
C29_TimeChangeNotified ==
    last.op \in SetsTime /\ "time" \in callbacks
        => IF last.ok THEN last.notified = << <<"time", rtcNow>> >>
           ELSE last.notified = <<>>

\* setTimeFromUTC has set the clock with the callback set
C29_Witness ==
    /\ last.op = "setTimeFromUTC" /\ last.ok
    /\ "time" \in callbacks
    /\ Len(last.notified) = 1

\* The days since 1970-01-01 and the seconds of the day of utcEpoch +
\* offsetSeconds, taken modulo 2^32 seconds = 49710 days and 23296 seconds
LocalSum(utcEpoch, offsetSeconds) ==
    LET q == utcEpoch[1] * 512 + (utcEpoch[2] \div 128)
        secs == (q % 675) * 128 + (utcEpoch[2] % 128) + (offsetSeconds % 86400)
        d == (q \div 675) + (offsetSeconds \div 86400) + (secs \div 86400)
        s == secs % 86400
        shift == IF d > 49710 \/ (d = 49710 /\ s >= 23296) THEN -1
                 ELSE IF d < 0 THEN 1
                 ELSE 0
        turned == s + shift * 23296
    IN  [days |-> d + shift * 49710 + (turned \div 86400),
         secs |-> turned % 86400]

\* The days from 1970-01-01 to 2000-01-01
DaysTo2000 == 10957

IsLeapYear(y) == y % 4 = 0 /\ (y % 100 # 0 \/ y % 400 = 0)

\* The calendar year of a day count since 2000-01-01
RECURSIVE CalendarYear(_, _)
CalendarYear(days, y) ==
    LET length == IF IsLeapYear(y) THEN 366 ELSE 365
    IN  IF days < length THEN y ELSE CalendarYear(days - length, y + 1)

Before2000(utcEpoch) ==
    utcEpoch[1] < 14445 \/ (utcEpoch[1] = 14445 /\ utcEpoch[2] < 17280)

YearOutside(local) ==
    \/ local.days < DaysTo2000
    \/ CalendarYear(local.days - DaysTo2000, 2000) > 2100

----------------------------------------------------------------------------
(* Schedule events (SpecPoll) *)

\* C28: with a callback for schedule events set, when isWithinSchedule(id)
\* answers differently from the time before, the call has invoked the
\* callback for that schedule, with isStart = TRUE when the schedule has
\* become active and FALSE when it has become inactive
C28_ScheduleEventNotified ==
    [][/\ last.op = "isWithinSchedule" /\ last.init /\ last.lock
       /\ last'.op = "isWithinSchedule" /\ last'.init /\ last'.lock
       /\ last'.arg = last.arg
       /\ last'.ok # last.ok
       /\ "schedule" \in callbacks
       => \E k \in 1..Len(last'.notified) :
              last'.notified[k] = <<"schedule", last'.arg, last'.ok>>]_vars

----------------------------------------------------------------------------
(* begin() again (SpecBegin) *)

\* C31: on a controller that is not initialized begin() succeeds exactly
\* when it gets the lock and the RTC begins, and the controller is
\* initialized after it exactly then, so that a begin() after a failed one
\* tries again; an initialized controller stays initialized, and begin() on
\* it returns success and leaves the clock, the alarms and their flags alone
C31_BeginAgain ==
    [][/\ initialized => initialized'
       /\ last'.op = "begin" /\ initialized
              => last'.ok /\ ~last'.hw /\ UNCHANGED hardware
       /\ \A rtcBegins \in BOOLEAN, lostPower \in BOOLEAN, got \in Lock :
              ~initialized /\ begin(rtcBegins, lostPower, got)
                  => /\ last'.ok <=> rtcBegins /\ got
                     /\ initialized' <=> last'.ok]_vars

\* begin() has returned success on an initialized controller whose clock was
\* set and whose alarm 2 has fired: the flag is still up
C31_Witness ==
    /\ last.op = "begin" /\ last.ok /\ last.init /\ ~last.hw
    /\ alarmFired[2]
    /\ rtcNow = Thursday6

----------------------------------------------------------------------------
(* Without the lock (SpecDenied) *)

TakesLock ==
    {"setTime", "now", "setAlarm1", "setAlarm2", "clearAlarm",
     "acknowledgeAlarm", "isAlarmFired", "markPumpExerciseComplete",
     "isPumpExerciseTime", "isWithinAnySchedule", "isWithinSchedule",
     "getNextScheduledStart", "getNextScheduledEnd",
     "getSecondsUntilNextEvent", "getTemperatureCelsius"}

\* C32: an operation that takes the lock and, on an initialized controller,
\* returns without having it returns false, no DateTime or no event, has
\* not accessed the RTC, has invoked no callback and has left the
\* schedules, the vacation, the pump exercise, the clock and the alarms as
\* they were
C32_DeniedChangesNothing ==
    [][last'.op \in TakesLock /\ last'.init /\ ~last'.lock
           => /\ ~last'.ok
              /\ last'.op \in {"now", "getNextScheduledStart",
                             "getNextScheduledEnd"}
                     => last'.t = InvalidDateTime
              /\ last'.op = "getSecondsUntilNextEvent" => last'.t = NoEvent
              /\ ~last'.hw
              /\ last'.notified = <<>>
              /\ UNCHANGED <<policy, hardware, completedIn>>]_vars

\* acknowledgeAlarm(2) was refused the lock: the flag of alarm 2 is still
\* up and the callback for alarms, which is set, was not invoked
C32_Witness ==
    /\ last.op = "acknowledgeAlarm" /\ last.arg = 2
    /\ last.init /\ ~last.lock
    /\ alarmFired[2]
    /\ "alarm" \in callbacks

----------------------------------------------------------------------------
(* The documented day masks (SpecMask) *)

\* C33: with 0 = Sunday .. 6 = Saturday, a schedule with the day mask
\* 0b01111110 ('Weekdays') is active inside its window on Monday to Friday
\* and on no other day, and one with 0b10000001 ('Weekends') on Saturday
\* and Sunday and on no other day
C33_DayMaskPatterns ==
    /\ Answered("isWithinSchedule")
    /\ Holders(last.arg) # {}
    /\ hour(rtcNow) = 7
    => LET s == Held(last.arg)
           today == dayOfTheWeek(rtcNow)
       IN  /\ s.dayMask = 126 => (last.ok <=> today \in 1..5)
           /\ s.dayMask = 129 => (last.ok <=> today \in {0, 6})

----------------------------------------------------------------------------
(* Reads of deserializeSchedules (SpecSave) *)

\* One more than the highest index of `buffer` that deserializeSchedules
\* reads: nothing of a null or too short buffer, the header, then every
\* record the header announces and the sections that dataSize covers
readEnd(buffer) ==
    LET afterRecords == HeaderSize + RecordSize * buffer.b3
        vacRead == afterRecords + VacationModeSize <= buffer.dataSize
        afterVac == IF vacRead THEN afterRecords + VacationModeSize ELSE afterRecords
        pumpRead == afterVac + PumpExerciseSize <= buffer.dataSize
    IN  IF buffer.null \/ buffer.dataSize < HeaderSize THEN 0
        ELSE IF ~headerAccepted(buffer) THEN HeaderSize
        ELSE IF pumpRead THEN afterVac + PumpExerciseSize
        ELSE afterVac

\* C34: deserializeSchedules of a buffer whose header is accepted reads no
\* byte at an index of dataSize or above, and refuses a buffer that ends
\* before the end of the records its header announces
C34_ReadsWithinBuffer ==
    last.op = "deserializeSchedules" /\ headerAccepted(last.arg)
    => /\ readEnd(last.arg) <= last.arg.dataSize
       /\ last.arg.dataSize < HeaderSize + RecordSize * last.arg.b3 => ~last.ok

----------------------------------------------------------------------------
(* The end that getNextScheduledEnd returns (SpecEvent) *)

\* C35: a timestamp returned by getNextScheduledEnd lies after the clock's
\* time and at most 24 hours after it
C35_EndWithinADay ==
    Answered("getNextScheduledEnd") /\ last.ok
    => /\ rtcNow < last.t
       /\ last.t <= rtcNow + 86400

----------------------------------------------------------------------------
(* The next start and the window (SpecWindow) *)

\* The test of isWithinSchedule on the schedule s itself with the clock at t
ActiveItself(s, t) == withinSchedule(<<s>>, s.id, t)

\* The next start of every enabled schedule held, counted from the clock's
\* time, is an instant at which that schedule is active
StartsActive(scheds) ==
    \A i \in 1..Len(scheds) :
        LET t == calculateNextOccurrence(scheds[i], rtcNow)
        IN  scheds[i].enabled /\ isValid(t) => ActiveItself(scheds[i], t)

\* C36: for every enabled schedule and every time `from`, a timestamp that
\* calculateNextOccurrence returns is an instant at which the schedule is
\* active
C36_NextStartIsActive ==
    initialized => StartsActive(schedules)

\* C36, amended: the same for every enabled schedule whose start and end
\* differ
C36_NextStartOfOpenWindowIsActive ==
    initialized
    => StartsActive(SelectSeq(schedules,
                              LAMBDA s : StartMinute(s) # EndMinute(s)))

\* getNextScheduledStart has returned the start of a window over midnight
\* that is open on Sundays only, asked half a minute before Sunday begins
C36_Witness ==
    /\ Answered("getNextScheduledStart") /\ last.ok
    /\ rtcNow = DT(0, 23, 59, 30)
    /\ \E i \in 1..Len(schedules) :
           /\ schedules[i].dayMask = 1
           /\ StartMinute(schedules[i]) > EndMinute(schedules[i])
           /\ last.t = calculateNextOccurrence(schedules[i], rtcNow)
           /\ last.t = DT(1, 23, 0, 0)
           /\ ActiveItself(schedules[i], last.t)

----------------------------------------------------------------------------
(* A window over midnight (SpecWindow) *)

\* The minutes from midnight after t up to the end of the window of s
AfterMidnight(s, t) ==
    {(t \div 86400 + 1) * 86400 + m * 60 : m \in 0..(EndMinute(s) - 1)}

\* C37: an enabled schedule with start after end that isWithinSchedule finds
\* active at 23:59 is, unchanged, active at 00:00 of the following day and
\* at every minute from then to its end, whatever its day mask
C37_ContinuousOverMidnight ==
    /\ Answered("isWithinSchedule") /\ last.ok
    /\ StartMinute(Held(last.arg)) > EndMinute(Held(last.arg))
    /\ hour(rtcNow) = 23 /\ minute(rtcNow) = 59
    => \A t \in AfterMidnight(Held(last.arg), rtcNow) :
           withinSchedule(schedules, last.arg, t)

----------------------------------------------------------------------------
(* The two queries for activity (SpecAgree) *)

\* One of the two queries has answered and the other answers in this step,
\* both with the mutex, at the same clock time on the same schedules
AskedBoth(before, after) ==
    /\ Answered(before)
    /\ last'.op = after /\ last'.init /\ last'.lock

\* C38: isWithinAnySchedule() returns true if and only if
\* getCurrentActiveSchedule(), called at the same instant, returns a
\* schedule
C38_QueriesAgree ==
    [][/\ AskedBoth("isWithinAnySchedule", "getCurrentActiveSchedule")
           => (last.ok <=> last'.ok)
       /\ AskedBoth("getCurrentActiveSchedule", "isWithinAnySchedule")
           => (last.ok <=> last'.ok)]_vars

\* C38, amended: isWithinAnySchedule() returns true if and only if
\* getCurrentActiveSchedule(), called at the same instant, returns a
\* schedule and no enabled vacation covers that instant
C38_QueriesAgreeOutsideVacation ==
    [][/\ AskedBoth("isWithinAnySchedule", "getCurrentActiveSchedule")
           => (last.ok <=> last'.ok /\ ~VacationActive)
       /\ AskedBoth("getCurrentActiveSchedule", "isWithinAnySchedule")
           => (last'.ok <=> last.ok /\ ~VacationActive)]_vars

\* getCurrentActiveSchedule() has returned a schedule on the Monday of the
\* vacation at 07:30, where isWithinAnySchedule() returns false
C38_Witness ==
    /\ Answered("getCurrentActiveSchedule") /\ last.ok
    /\ VacationActive
    /\ rtcNow = DT(2, 7, 30, 0)

----------------------------------------------------------------------------
(* Two begin() calls at once (SpecLock) *)

\* Context c completes the hardware initialization sequence in this step:
\* _rtc.begin, the clock adjusted after lost power, alarms 1 and 2 cleared
InitializesHardware(c) ==
    /\ pc[c] = "begin_hw" /\ pc'[c] = "idle"
    /\ last'.op = "begin" /\ last'.ok /\ last'.hw

\* C39: however two begin() calls from different contexts interleave, the
\* hardware initialization sequence is run at most once: no context runs it
\* on a controller that is initialized already
C39_InitializedOnce ==
    [][\A c \in Ctx : InitializesHardware(c) => ~initialized]_vars

----------------------------------------------------------------------------
(* From UTC and back (SpecTime) *)

\* C40: after setTimeFromUTC(utcEpoch, offsetSeconds) has set the clock of
\* an initialized controller, nowUTC(offsetSeconds), called before the
\* clock advances and obtaining the mutex, returns utcEpoch
C40_UTCRoundTrip ==
    [][/\ Answered("setTimeFromUTC") /\ last.ok
       /\ last'.op = "nowUTC" /\ last'.lock
       /\ last'.arg = last.arg[2]
       => last'.epoch = last.arg[1]]_vars

\* nowUTC(-3600) has returned 2^31 with the clock an hour before
\* 2038-01-19 03:14:08, where setTimeFromUTC(2^31, -3600) has put it
C40_Witness ==
    /\ last.op = "nowUTC" /\ last.init /\ last.lock
    /\ last.arg = -3600
    /\ last.epoch = <<32768, 0>>
    /\ rtcNow = DateTimeOfEpoch(addU32(<<32768, 0>>, -3600))

====
